---- MODULE Spec2Model ----
(***************************************************************************)
(* Model of the course-catalog Telegram bot of src/main.py: the            *)
(* ConversationHandler state machine, the admin relay protocol (the        *)
(* "(ID: <user_id>)" correlation token), and the usage accounting.         *)
(*                                                                         *)
(* Text is modelled as a sequence of atoms.  An atom is a single character *)
(* ("(", "I", "1", "&", ...), an HTML markup token of the outgoing body    *)
(* ("<b>", "&amp;", ...) or a chunk of boilerplate that contains none of   *)
(* the characters the protocol looks at.  Emoji of the source templates    *)
(* are left out of the chunks.                                             *)
(***************************************************************************)
EXTENDS Integers, Sequences, FiniteSets, TLC

VARIABLES conv, user_data, db, last, running, screen

vars == <<conv, user_data, db, last, running, screen>>

----------------------------------------------------------------------------
(* Bounds *)

\* the largest user identifier of the model
MaxUserId == 12
\* a usage counter is never driven past this value
MaxCount == 2

\* the handlers that run at once where updates are handled concurrently
MaxWorkers == 3

----------------------------------------------------------------------------
(* Configuration, src/main.py:27-31 *)

ADMIN_ID == 1
CHANNEL_ID == 7

\* the users that talk to the bot; ids 0 and MaxUserId are the boundary ids
Customers == {0, MaxUserId}
Users == {ADMIN_ID} \cup Customers

RAZORPAY_LINK == "https://razorpay.me/@gateprep"

----------------------------------------------------------------------------
(* Python string operations on atom sequences *)

\* s[i:i+len(pat)] == pat
MatchAt(s, pat, i) ==
    /\ i + Len(pat) - 1 <= Len(s)
    /\ \A k \in 1..Len(pat) : s[i + k - 1] = pat[k]

\* the positions at which pat occurs in s
Occurrences(s, pat) == {i \in 1..Len(s) : MatchAt(s, pat, i)}

\* pat in s
Contains(s, pat) == Occurrences(s, pat) # {}

Min(S) == CHOOSE x \in S : \A y \in S : x <= y

\* s.split(pat)[0]: the text before the first occurrence of pat (all of s if none)
SplitFirst(s, pat) ==
    IF Contains(s, pat) THEN SubSeq(s, 1, Min(Occurrences(s, pat)) - 1) ELSE s

\* s.split(pat)[1]: the text between the first occurrence of pat and the next
\* one; only used where pat occurs in s (otherwise Python raises IndexError)
SplitSecond(s, pat) ==
    LET i == Min(Occurrences(s, pat))
        rest == SubSeq(s, i + Len(pat), Len(s))
    IN  SplitFirst(rest, pat)

RECURSIVE Remove(_, _)
\* s.replace(ch, '')
Remove(s, ch) ==
    IF s = <<>> THEN <<>>
    ELSE IF Head(s) = ch THEN Remove(Tail(s), ch)
    ELSE <<Head(s)>> \o Remove(Tail(s), ch)

Digits == <<"0", "1", "2", "3", "4", "5", "6", "7", "8", "9">>
IsDigit(c) == \E d \in 1..10 : Digits[d] = c
DigitVal(c) == (CHOOSE d \in 1..10 : Digits[d] = c) - 1

RECURSIVE Str(_)
\* str(n) of a non-negative integer, as in f"{user.id}"
Str(n) == IF n < 10 THEN <<Digits[n + 1]>> ELSE Str(n \div 10) \o <<Digits[(n % 10) + 1]>>

IsSpace(c) == c \in {" ", "\n"}

RECURSIVE LStrip(_)
LStrip(s) == IF s # <<>> /\ IsSpace(Head(s)) THEN LStrip(Tail(s)) ELSE s

RECURSIVE RStrip(_)
RStrip(s) == IF s # <<>> /\ IsSpace(s[Len(s)]) THEN RStrip(SubSeq(s, 1, Len(s) - 1)) ELSE s

\* the digits of an int() literal: digits, single underscores between them
IsIntBody(s) ==
    /\ s # <<>>
    /\ IsDigit(s[1]) /\ IsDigit(s[Len(s)])
    /\ \A i \in 1..Len(s) : IsDigit(s[i]) \/ s[i] = "_"
    /\ \A i \in 1..(Len(s) - 1) : ~(s[i] = "_" /\ s[i + 1] = "_")

RECURSIVE DecVal(_)
DecVal(s) == IF s = <<>> THEN 0 ELSE 10 * DecVal(SubSeq(s, 1, Len(s) - 1)) + DigitVal(s[Len(s)])

\* int(s): [ok |-> FALSE] stands for ValueError
PyInt(s) ==
    LET t == RStrip(LStrip(s))
        signed == t # <<>> /\ t[1] \in {"+", "-"}
        body == IF signed THEN Tail(t) ELSE t
    IN  IF IsIntBody(body)
        THEN [ok |-> TRUE,
              val |-> (IF signed /\ t[1] = "-" THEN -1 ELSE 1) * DecVal(Remove(body, "_"))]
        ELSE [ok |-> FALSE, val |-> 0]

----------------------------------------------------------------------------
(* HTML: html.escape of the program, and the transport's rendering of a    *)
(* body sent with parse_mode=HTML into the text a later update carries     *)

\* html.escape(s): & < > " ' become entities
EscapeAtom(c) ==
    CASE c = "&" -> "&amp;"
      [] c = "<" -> "&lt;"
      [] c = ">" -> "&gt;"
      [] c = "\"" -> "&quot;"
      [] c = "'" -> "&#x27;"
      [] OTHER -> c

html_escape(s) == [i \in 1..Len(s) |-> EscapeAtom(s[i])]

Tags == {"<b>", "</b>", "<code>", "</code>", "<i>", "</i>", "<pre>", "</pre>"}

UnescapeAtom(c) ==
    CASE c = "&amp;" -> "&"
      [] c = "&lt;" -> "<"
      [] c = "&gt;" -> ">"
      [] c = "&quot;" -> "\""
      [] c = "&#x27;" -> "'"
      [] OTHER -> c

RECURSIVE Render(_)
\* the text of the delivered message: tags dropped, entities decoded
Render(body) ==
    IF body = <<>> THEN <<>>
    ELSE IF Head(body) \in Tags THEN Render(Tail(body))
    ELSE <<UnescapeAtom(Head(body))>> \o Render(Tail(body))

----------------------------------------------------------------------------
(* Course data, src/main.py:38-60 *)

COURSES ==
    [c_gsssb |->
        [name |-> "GSSSB Non-Tech and CCE", price |-> 199,
         subjects |->
            [s_maths  |-> [name |-> "Maths",       vid_msg_id |-> 3,  mat_msg_id |-> 99],
             s_reason |-> [name |-> "Reasoning",   vid_msg_id |-> 33, mat_msg_id |-> 100],
             s_polity |-> [name |-> "Polity",      vid_msg_id |-> 47, mat_msg_id |-> 0],
             s_env    |-> [name |-> "Environment", vid_msg_id |-> 58, mat_msg_id |-> 0],
             s_lang   |-> [name |-> "Language",    vid_msg_id |-> 64, mat_msg_id |-> 0]]],
     c_gpsc |->
        [name |-> "GPSC AE Civil", price |-> 199,
         subjects |->
            [s_survey |-> [name |-> "Surveying",        vid_msg_id |-> 68, mat_msg_id |-> 0],
             s_enve   |-> [name |-> "Environment Engg", vid_msg_id |-> 81, mat_msg_id |-> 0],
             s_bim    |-> [name |-> "BIM",              vid_msg_id |-> 66, mat_msg_id |-> 0],
             s_ecv    |-> [name |-> "ECV",              vid_msg_id |-> 86, mat_msg_id |-> 0]]]]

CourseKeys == DOMAIN COURSES
SubjectKeys(ck) == DOMAIN COURSES[ck].subjects

\* f"{a}_{b}"
Key(a, b) == a \o "_" \o b

----------------------------------------------------------------------------
(* Conversation states, src/main.py:95; NO_STATE is a key absent from the  *)
(* ConversationHandler's table                                             *)

SELECTING_ACTION == "SELECTING_ACTION"
FORWARD_TO_ADMIN == "FORWARD_TO_ADMIN"
FORWARD_SCREENSHOT == "FORWARD_SCREENSHOT"
NO_STATE == "NO_STATE"
\* a handler that returns None leaves the conversation state as it is
KEEP == "KEEP"

\* context.user_data of a user: the three keys subject_menu writes, or none
UNSET == "UNSET"
NoUserData == [selected_course |-> UNSET, selected_subject |-> UNSET, back_to_course_key |-> UNSET]

----------------------------------------------------------------------------
(* Transport calls and stored messages *)

\* one call of the handler to the transport or to the store:
\*   op      send | reply | edit | answer | photo | copy | track | incr
\*   chat    the destination chat (the user id for track)
\*   kind    the template the text comes from (the counter name for incr)
\*   text    the rendered text (the caption for photo, the first name for track)
\*   buttons the callback data / url of the inline keyboard, row by row
Call(op, chat, kind, text, buttons) ==
    [op |-> op, chat |-> chat, kind |-> kind, text |-> text, buttons |-> buttons]

DbOps == {"track", "incr"}

\* a message as a later update carries it in reply_to_message
Message(from_bot, chat, kind, text, caption) ==
    [from_bot |-> from_bot, chat |-> chat, kind |-> kind, text |-> text, caption |-> caption]

NoMessage == Message(FALSE, -1, "none", <<>>, <<>>)

\* the message a successful call leaves in the destination chat
Delivered(c) ==
    IF c.op = "photo" THEN Message(TRUE, c.chat, c.kind, <<>>, c.text)
    ELSE Message(TRUE, c.chat, c.kind, c.text, <<>>)

\* the environment of one update: the chats to which every transport call
\* fails while the update is handled (a call to a chat the transport does not
\* know fails too; a copy fails when the source channel is not accessible),
\* and whether the store answers
Fails(c, env) ==
    IF c.op \in DbOps THEN ~env.dbOk
    ELSE \/ c.chat \in env.fail
         \/ c.chat \notin Users
         \/ c.op = "copy" /\ CHANNEL_ID \in env.fail

\* the outcome of a handler: the calls that succeeded, the exception that
\* left the handler ("" if none), the state it returned, the user_data it
\* left behind
Outcome(calls, err, ret, ud) == [calls |-> calls, err |-> err, ret |-> ret, ud |-> ud]

\* straight-line code: the calls run in order until the first one raises
Run(steps, env, ret, ud) ==
    LET bad == {i \in 1..Len(steps) : Fails(steps[i], env)}
    IN  IF bad = {} THEN Outcome(steps, "", ret, ud)
        ELSE Outcome(SubSeq(steps, 1, Min(bad) - 1),
                     IF steps[Min(bad)].op \in DbOps THEN "PostgresError" ELSE "TelegramError",
                     KEEP, ud)

\* a; b
Then(a, b) ==
    IF a.err # "" THEN a ELSE Outcome(a.calls \o b.calls, b.err, b.ret, b.ud)

----------------------------------------------------------------------------
(* Updates *)

\* an inbound update of a private chat (effective_chat.id = effective_user.id):
\*   user, first_name   update.effective_user
\*   type               command | callback | text | photo | other
\*   data               the command name, or the '_'-separated parts of
\*                      callback_query.data (query.data.split('_'))
\*   text               message.text of a text message, the joined arguments
\*                      of a command
\*   reply_to           message.reply_to_message, NoMessage if none
Update(user, first_name, type, data, text, reply_to) ==
    [user |-> user, first_name |-> first_name, type |-> type, data |-> data,
     text |-> text, reply_to |-> reply_to]

RECURSIVE JoinParts(_)
\* '_'.join(parts): the callback data as the string it is
JoinParts(parts) ==
    IF Len(parts) = 1 THEN parts[1] ELSE parts[1] \o "_" \o JoinParts(Tail(parts))

\* update.message.text is a string: a text message or a command
HasText(upd) == upd.type \in {"command", "text"}

\* update.message.text
MessageText(upd) ==
    IF upd.type = "command"
    THEN <<"/" \o upd.data[1]>> \o (IF upd.text = <<>> THEN <<>> ELSE <<" ">> \o upd.text)
    ELSE upd.text

----------------------------------------------------------------------------
(* Message templates: the body the handler builds, as the transport        *)
(* delivers it                                                             *)

\* the literal "(ID: " of the correlation token
ID_OPEN == <<"(", "I", "D", ":", " ">>

\* the tag handle_user_reply looks for
ADMIN_REPLIED == <<"Admin replied:">>

\* src/main.py:110-118
welcome_text(first_name) ==
    Render(<<"Welcome, ", "<b>">> \o html_escape(first_name) \o <<"</b>", "!", "\n", "\n",
             "Please select a course category below to begin:">>)

\* src/main.py:143-147
course_text(course) ==
    Render(<<"<b>">> \o html_escape(<<course.name>>) \o <<"</b>", "\n", "\n",
             "Select a subject to explore free demos or proceed to purchase:">>)

\* src/main.py:169-173
subject_text(course, subject) ==
    Render(<<"<b>">> \o html_escape(<<course.name>>) \o <<" ", "&gt;", " ">>
           \o html_escape(<<subject.name>>) \o <<"</b>", "\n", "\n", "Choose an action below:">>)

\* src/main.py:208
upsell_text(course) ==
    Render(<<"Liked the demo? Unlock the complete course for ">>
           \o html_escape(<<course.name>>) \o <<" below:">>)

\* payment instructions with the price written into the text as 499
buy_text_fixed_price(course) ==
    Render(<<"<b>", "Purchase ">> \o html_escape(<<course.name>>) \o <<"</b>", "\n", "\n",
             "<b>", "Price: ">> \o Str(499) \o <<"</b>", "\n", "\n",
             "Pay via Razorpay and share your screenshot here.">>)

\* src/main.py:234
buy_text(course) ==
    Render(<<"<b>", "Purchase ">> \o html_escape(<<course.name>>) \o <<"</b>", "\n", "\n",
             "<b>", "Price: ">> \o Str(course.price) \o <<"</b>", "\n", "\n",
             "Pay via Razorpay and share your screenshot here.">>)

\* src/main.py:256
new_message_text(user, first_name, course_name, text) ==
    Render(<<"<b>", "New Message", "</b>", "\n", "From: ">> \o html_escape(first_name)
           \o <<" ">> \o ID_OPEN \o <<"<code>">> \o Str(user) \o <<"</code>", ")", "\n",
                "Context: ", "<b>">> \o html_escape(<<course_name>>)
           \o <<"</b>", "\n", "\n", "Message:", "\n">> \o html_escape(text))

\* src/main.py:266
screenshot_caption(user, first_name, course_name) ==
    Render(<<"<b>", "Payment Screenshot", "</b>", "\n", "From: ">> \o html_escape(first_name)
           \o <<" ">> \o ID_OPEN \o <<"<code>">> \o Str(user) \o <<"</code>", ")", "\n",
                "Course: ", "<b>">> \o html_escape(<<course_name>>)
           \o <<"</b>", "\n", "\n", "Reply to this message to send the course link.">>)

\* src/main.py:280
admin_reply_text(text) ==
    Render(<<"<b>">> \o ADMIN_REPLIED \o <<"</b>", "\n", "\n">> \o html_escape(text)
           \o <<"\n", "\n", "---", "\n", "<i>", "You can reply to this message to chat back.",
                "</i>">>)

\* a follow-up that does not carry the id of its sender
follow_up_text_unsigned(user, first_name, text) ==
    Render(<<"<b>", "Follow-up", "</b>", " from ">> \o html_escape(first_name)
           \o <<":", "\n", "\n">> \o html_escape(text))

\* src/main.py:290
follow_up_text(user, first_name, text) ==
    Render(<<"<b>", "Follow-up", "</b>", " from ">> \o html_escape(first_name)
           \o <<" ">> \o ID_OPEN \o <<"<code>">> \o Str(user) \o <<"</code>", ")", ":",
                "\n", "\n">> \o html_escape(text))

\* src/main.py:322
announcement_text(message) ==
    Render(<<"<b>", "Announcement:", "</b>", "\n", "\n">> \o html_escape(message))

\* src/main.py:351
error_text(err) ==
    Render(<<"<b>", "Bot Error", "</b>", "\n", "<pre>">> \o html_escape(<<err>>) \o <<"</pre>">>)

----------------------------------------------------------------------------
(* Handlers, src/main.py:98-343.  Each reads the state (conv, user_data,   *)
(* db) and yields the Outcome of handling upd in environment env.          *)

u_data(upd) == user_data[upd.user]

\* the store calls of start, src/main.py:100-103
start_accounting(upd) ==
    IF db.pool
    THEN <<Call("track", upd.user, "users", upd.first_name, <<>>),
           Call("incr", upd.user, "bot_starts", <<>>, <<>>)>>
    ELSE <<>>

\* start without the calls to track_user and increment_stat
start_unrecorded(upd, env) ==
    Run(<<Call(IF upd.type = "callback" THEN "edit" ELSE "reply", upd.user, "welcome",
               welcome_text(upd.first_name), <<"c_gsssb", "c_gpsc">>)>>,
        env, SELECTING_ACTION, u_data(upd))

\* start that clears the selection of the sender
start_clearing(upd, env) == Outcome(<<>>, "", SELECTING_ACTION, NoUserData)

\* src/main.py:98-124
start(upd, env) ==
    Run(start_accounting(upd)
        \o <<Call(IF upd.type = "callback" THEN "edit" ELSE "reply", upd.user, "welcome",
                  welcome_text(upd.first_name), <<"c_gsssb", "c_gpsc">>)>>,
        env, SELECTING_ACTION, u_data(upd))

\* cancel that confirms and returns without calling start
cancel_in_place(upd, env) ==
    Run(<<Call("reply", upd.user, "cancelled", <<"Action cancelled.">>, <<>>)>>,
        env, KEEP, u_data(upd))

\* src/main.py:126-128
cancel(upd, env) ==
    Then(Run(<<Call("reply", upd.user, "cancelled", <<"Action cancelled.">>, <<>>)>>,
             env, KEEP, u_data(upd)),
         start(upd, env))

\* the keyboard of course_menu, src/main.py:140-141; the subjects in the
\* order of the registry
SubjectOrder(ck) ==
    IF ck = "c_gsssb" THEN <<"s_maths", "s_reason", "s_polity", "s_env", "s_lang">>
    ELSE <<"s_survey", "s_enve", "s_bim", "s_ecv">>

course_keyboard(ck) ==
    [i \in 1..Len(SubjectOrder(ck)) |-> "subj_" \o ck \o "_" \o SubjectOrder(ck)[i]]
    \o <<"main_menu">>

\* course_menu that counts the view before it looks the course up
course_menu_count_first(upd, env) ==
    Run(IF db.pool
        THEN <<Call("incr", upd.user, "view_" \o JoinParts(upd.data), <<>>, <<>>)>>
        ELSE <<>>,
        env, SELECTING_ACTION, u_data(upd))

\* src/main.py:130-149
course_menu(upd, env) ==
    LET course_key == JoinParts(upd.data)
        answered == Run(<<Call("answer", upd.user, "answer", <<>>, <<>>)>>,
                        env, SELECTING_ACTION, u_data(upd))
    IN  IF course_key \notin CourseKeys THEN answered
        ELSE Then(answered,
                  Run((IF db.pool
                       THEN <<Call("incr", upd.user, "view_" \o course_key, <<>>, <<>>)>>
                       ELSE <<>>)
                      \o <<Call("edit", upd.user, "course_menu",
                                course_text(COURSES[course_key]), course_keyboard(course_key))>>,
                      env, SELECTING_ACTION, u_data(upd)))

\* the keyboard of subject_menu, src/main.py:161-167
subject_keyboard(ck, sk) ==
    <<"demo_vid_" \o ck \o "_" \o sk, "demo_mat_" \o ck \o "_" \o sk,
      "buy_course", "talk_admin", ck>>

\* a subject selection that stores the course and leaves the rest
subject_menu_course_only(upd, env) ==
    Outcome(<<>>, "", SELECTING_ACTION,
            IF Len(upd.data) >= 3
            THEN [u_data(upd) EXCEPT !.selected_course = Key(upd.data[2], upd.data[3])]
            ELSE u_data(upd))

\* src/main.py:151-175
subject_menu(upd, env) ==
    LET parts == upd.data
        answered == Run(<<Call("answer", upd.user, "answer", <<>>, <<>>)>>,
                        env, KEEP, u_data(upd))
        course_key == Key(parts[2], parts[3])
        subj_key == Key(parts[4], parts[5])
        selected == [selected_course |-> course_key, selected_subject |-> subj_key,
                     back_to_course_key |-> course_key]
    IN  IF answered.err # "" THEN answered
        ELSE IF Len(parts) < 5 THEN Outcome(answered.calls, "IndexError", KEEP, u_data(upd))
        ELSE IF course_key \notin CourseKeys \/ subj_key \notin SubjectKeys(course_key)
        THEN Outcome(answered.calls, "KeyError", KEEP, u_data(upd))
        ELSE Then(answered,
                  Run(<<Call("edit", upd.user, "subject_menu",
                             subject_text(COURSES[course_key],
                                          COURSES[course_key].subjects[subj_key]),
                             subject_keyboard(course_key, subj_key))>>,
                      env, SELECTING_ACTION, selected))

\* a demo reference that is the video's for every kind
demo_msg_id_video_only(subject, kind) == subject.vid_msg_id

\* src/main.py:184, the stored reference of the demo of a kind
demo_msg_id(subject, kind) ==
    IF kind = "vid" THEN subject.vid_msg_id ELSE subject.mat_msg_id

\* src/main.py:177-217 with the content source channel_id
send_demo_content_from(upd, env, channel_id) ==
    LET parts == upd.data
        course_key == Key(parts[3], parts[4])
        subj_key == Key(parts[5], parts[6])
        subject == COURSES[course_key].subjects[subj_key]
        msg_id == demo_msg_id(subject, parts[2])
        demo == Run(<<Call("copy", upd.user, "demo", Str(msg_id), <<>>),
                      Call("send", upd.user, "upsell", upsell_text(COURSES[course_key]),
                           <<"buy_course", course_key>>)>>,
                    env, SELECTING_ACTION, u_data(upd))
    IN  IF Len(parts) < 6 THEN Outcome(<<>>, "IndexError", KEEP, u_data(upd))
        ELSE IF course_key \notin CourseKeys \/ subj_key \notin SubjectKeys(course_key)
        THEN Outcome(<<>>, "KeyError", KEEP, u_data(upd))
        ELSE IF channel_id = 0 \/ msg_id = 0
        THEN Run(<<Call("answer", upd.user, "no_demo_alert",
                        <<"No demo available for this subject yet.">>, <<>>)>>,
                 env, SELECTING_ACTION, u_data(upd))
        ELSE Then(Run(<<Call("answer", upd.user, "answer", <<>>, <<>>)>>,
                      env, KEEP, u_data(upd)),
                  IF demo.err = "" THEN demo
                  ELSE Then(Outcome(demo.calls, "", KEEP, u_data(upd)),
                            Run(<<Call("reply", upd.user, "copy_failed",
                                       <<"Sorry, the file could not be loaded.">>, <<>>)>>,
                                env, SELECTING_ACTION, u_data(upd))))

\* src/main.py:177-217
send_demo_content(upd, env) == send_demo_content_from(upd, env, CHANNEL_ID)

\* handle_buy_or_admin whose share_screenshot branch returns FORWARD_TO_ADMIN
handle_buy_or_admin_swapped(upd, env) ==
    LET data == JoinParts(upd.data)
        answered == Run(<<Call("answer", upd.user, "answer", <<>>, <<>>)>>,
                        env, KEEP, u_data(upd))
        course_key == u_data(upd).selected_course
    IN  Then(answered,
             CASE data = "talk_admin" ->
                    Run(<<Call("edit", upd.user, "talk_prompt",
                               <<"Please type your message and send it.">>, <<>>)>>,
                        env, FORWARD_TO_ADMIN, u_data(upd))
               [] data = "buy_course" ->
                    IF course_key = UNSET
                    THEN Run(<<Call("edit", upd.user, "session_expired",
                                    <<"Session expired. Please start over using /start.">>,
                                    <<>>)>>,
                             env, SELECTING_ACTION, u_data(upd))
                    ELSE Run(<<Call("send", upd.user, "payment", buy_text(COURSES[course_key]),
                                    <<RAZORPAY_LINK, "share_screenshot",
                                      u_data(upd).back_to_course_key>>)>>,
                             env, SELECTING_ACTION, u_data(upd))
               [] data = "share_screenshot" ->
                    Run(<<Call("edit", upd.user, "screenshot_prompt",
                               <<"Please send the screenshot of your payment now.">>, <<>>)>>,
                        env, FORWARD_TO_ADMIN, u_data(upd))
               [] OTHER -> Outcome(<<>>, "", KEEP, u_data(upd)))

\* src/main.py:219-241
handle_buy_or_admin(upd, env) ==
    LET data == JoinParts(upd.data)
        answered == Run(<<Call("answer", upd.user, "answer", <<>>, <<>>)>>,
                        env, KEEP, u_data(upd))
        course_key == u_data(upd).selected_course
    IN  Then(answered,
             CASE data = "talk_admin" ->
                    Run(<<Call("edit", upd.user, "talk_prompt",
                               <<"Please type your message and send it.">>, <<>>)>>,
                        env, FORWARD_TO_ADMIN, u_data(upd))
               [] data = "buy_course" ->
                    IF course_key = UNSET
                    THEN Run(<<Call("edit", upd.user, "session_expired",
                                    <<"Session expired. Please start over using /start.">>,
                                    <<>>)>>,
                             env, SELECTING_ACTION, u_data(upd))
                    ELSE Run(<<Call("send", upd.user, "payment", buy_text(COURSES[course_key]),
                                    <<RAZORPAY_LINK, "share_screenshot",
                                      u_data(upd).back_to_course_key>>)>>,
                             env, SELECTING_ACTION, u_data(upd))
               [] data = "share_screenshot" ->
                    Run(<<Call("edit", upd.user, "screenshot_prompt",
                               <<"Please send the screenshot of your payment now.">>, <<>>)>>,
                        env, FORWARD_SCREENSHOT, u_data(upd))
               [] OTHER -> Outcome(<<>>, "", KEEP, u_data(upd)))

\* wrong_input_text that returns SELECTING_ACTION
wrong_input_text_leaves(upd, env) ==
    Run(<<Call("reply", upd.user, "wrong_input_text",
               <<"Please type a text message, or send /cancel.">>, <<>>)>>,
        env, SELECTING_ACTION, u_data(upd))

\* src/main.py:244-246
wrong_input_text(upd, env) ==
    Run(<<Call("reply", upd.user, "wrong_input_text",
               <<"Please type a text message, or send /cancel.">>, <<>>)>>,
        env, FORWARD_TO_ADMIN, u_data(upd))

\* src/main.py:248-250
wrong_input_screenshot(upd, env) ==
    Run(<<Call("reply", upd.user, "wrong_input_screenshot",
               <<"Please upload a photo screenshot, or send /cancel.">>, <<>>)>>,
        env, FORWARD_SCREENSHOT, u_data(upd))

\* context.user_data.get('selected_course', {'name': default})['name']
context_name(upd, default) ==
    IF u_data(upd).selected_course = UNSET THEN default
    ELSE COURSES[u_data(upd).selected_course].name

\* forward_to_admin that relays and confirms but does not return start()
forward_to_admin_stay(upd, env) ==
    Run(<<Call("send", ADMIN_ID, "new_message",
               new_message_text(upd.user, upd.first_name,
                                context_name(upd, "General Query"), MessageText(upd)),
               <<>>),
          Call("reply", upd.user, "relay_ok", <<"Message sent to admin.">>, <<>>)>>,
        env, KEEP, u_data(upd))

\* forward_to_admin that confirms before it sends
forward_to_admin_confirm_first(upd, env) ==
    Run(<<Call("reply", upd.user, "relay_ok", <<"Message sent to admin.">>, <<>>),
          Call("send", ADMIN_ID, "new_message",
               new_message_text(upd.user, upd.first_name,
                                context_name(upd, "General Query"), MessageText(upd)),
               <<>>)>>,
        env, SELECTING_ACTION, u_data(upd))

\* src/main.py:252-260
forward_to_admin(upd, env) ==
    Then(Run(<<Call("send", ADMIN_ID, "new_message",
                    new_message_text(upd.user, upd.first_name,
                                     context_name(upd, "General Query"), MessageText(upd)),
                    <<>>),
               Call("reply", upd.user, "relay_ok", <<"Message sent to admin.">>, <<>>)>>,
             env, KEEP, u_data(upd)),
         start(upd, env))

\* src/main.py:262-270
forward_screenshot_to_admin(upd, env) ==
    Then(Run(<<Call("photo", ADMIN_ID, "payment_screenshot",
                    screenshot_caption(upd.user, upd.first_name, context_name(upd, "Unknown")),
                    <<>>),
               Call("reply", upd.user, "screenshot_ok", <<"Screenshot received.">>, <<>>)>>,
             env, KEEP, u_data(upd)),
         start(upd, env))

----------------------------------------------------------------------------
(* The handlers outside the conversation, src/main.py:273-355 *)

\* the atom of the grave accent (U+0060), which src/main.py:279 removes
BACKTICK == "GRAVE"

\* reply_to_user looking for "ID: " instead of "(ID: "
REPLY_TOKEN_bare == <<"I", "D", ":", " ">>

\* the literal reply_to_user looks for and splits at, src/main.py:277-279
REPLY_TOKEN == <<"(", "I", "D", ":", " ">>

\* the destination reply_to_user reads from the replied-to text, src/main.py:279:
\* the text after the first "(ID: " up to the next ")", without grave accents,
\* converted by int()
parse_user_id(orig) ==
    PyInt(Remove(SplitFirst(SplitSecond(orig, REPLY_TOKEN), <<")">>), BACKTICK))

\* reply_to_message.text or reply_to_message.caption
orig_text(replied) == IF replied.text # <<>> THEN replied.text ELSE replied.caption

\* src/main.py:273-285
reply_to_user(upd, env) ==
    LET orig == orig_text(upd.reply_to)
        parsed == parse_user_id(orig)
        attempt ==
            IF ~parsed.ok THEN Outcome(<<>>, "ValueError", KEEP, u_data(upd))
            ELSE IF ~HasText(upd) THEN Outcome(<<>>, "AttributeError", KEEP, u_data(upd))
            ELSE Run(<<Call("send", parsed.val, "admin_replied",
                            admin_reply_text(MessageText(upd)), <<>>),
                       Call("reply", upd.user, "reply_ok", <<"Reply sent successfully.">>,
                            <<>>)>>,
                     env, KEEP, u_data(upd))
    IN  IF upd.user # ADMIN_ID \/ upd.reply_to = NoMessage
        THEN Outcome(<<>>, "", KEEP, u_data(upd))
        ELSE IF orig # <<>> /\ Contains(orig, REPLY_TOKEN)
        THEN IF attempt.err = "" THEN attempt
             ELSE Then(Outcome(attempt.calls, "", KEEP, u_data(upd)),
                       Run(<<Call("reply", upd.user, "parse_failed",
                                  <<"Failed to parse User ID.">>, <<>>)>>,
                           env, KEEP, u_data(upd)))
        ELSE Outcome(<<>>, "", KEEP, u_data(upd))

\* src/main.py:287-292
handle_user_reply(upd, env) ==
    LET replied == upd.reply_to
    IN  IF replied # NoMessage /\ replied.from_bot /\ Contains(replied.text, ADMIN_REPLIED)
        THEN IF ~HasText(upd) THEN Outcome(<<>>, "AttributeError", KEEP, u_data(upd))
             ELSE Run(<<Call("send", ADMIN_ID, "follow_up",
                             follow_up_text(upd.user, upd.first_name, MessageText(upd)),
                             <<>>),
                        Call("reply", upd.user, "follow_ok",
                             <<"Your reply has been sent to the admin.">>, <<>>)>>,
                      env, KEEP, u_data(upd))
        ELSE Outcome(<<>>, "", KEEP, u_data(upd))

\* the characters telegram.helpers.escape_markdown(text, 2) escapes
MdSpecial ==
    {"_", "*", "[", "]", "(", ")", "~", BACKTICK, ">", "#", "+", "-", "=", "|", "{", "}",
     ".", "!"}

\* escape_markdown(s, 2): a backslash before each special character
escape_markdown(s) == [i \in 1..Len(s) |-> IF s[i] \in MdSpecial THEN "\\" \o s[i] ELSE s[i]]

RECURSIVE RenderMarkdown(_)
\* the text the transport delivers for a MarkdownV2 body: the markup
\* characters dropped, the escaped ones without their backslash
RenderMarkdown(body) ==
    IF body = <<>> THEN <<>>
    ELSE IF Head(body) \in MdSpecial THEN RenderMarkdown(Tail(body))
    ELSE IF \E c \in MdSpecial : Head(body) = "\\" \o c
    THEN <<CHOOSE c \in MdSpecial : Head(body) = "\\" \o c>> \o RenderMarkdown(Tail(body))
    ELSE <<Head(body)>> \o RenderMarkdown(Tail(body))

\* src/bot.py:264
bot_admin_reply_text(text) ==
    RenderMarkdown(<<"*">> \o ADMIN_REPLIED \o <<"*", "\n", "\n">> \o escape_markdown(text)
                   \o <<"\n", "\n", "\\-", "\\-", "\\-", "\n", "_",
                        "Reply to this message to chat back", "\\.", "_">>)

\* src/bot.py:254-268, the reply_to_user of the other variant of the bot
bot_reply_to_user(upd, env) ==
    LET orig == orig_text(upd.reply_to)
        parsed == parse_user_id(orig)
        attempt ==
            IF ~parsed.ok THEN Outcome(<<>>, "ValueError", KEEP, u_data(upd))
            ELSE IF ~HasText(upd) THEN Outcome(<<>>, "TypeError", KEEP, u_data(upd))
            ELSE Run(<<Call("send", parsed.val, "admin_replied",
                            bot_admin_reply_text(MessageText(upd)), <<>>),
                       Call("reply", upd.user, "reply_ok", <<"Reply sent.">>, <<>>)>>,
                     env, KEEP, u_data(upd))
    IN  IF upd.user # ADMIN_ID THEN Outcome(<<>>, "", KEEP, u_data(upd))
        ELSE IF upd.reply_to = NoMessage THEN Outcome(<<>>, "", KEEP, u_data(upd))
        ELSE IF orig # <<>> /\ Contains(orig, REPLY_TOKEN)
        THEN IF attempt.err = "" THEN attempt
             ELSE Then(Outcome(attempt.calls, "", KEEP, u_data(upd)),
                       Run(<<Call("reply", upd.user, "parse_failed",
                                  <<"Error: ", attempt.err>>, <<>>)>>,
                           env, KEEP, u_data(upd)))
        ELSE Outcome(<<>>, "", KEEP, u_data(upd))

\* src/bot.py:223
bot_buy_text(course) ==
    RenderMarkdown(<<"*", "Purchase ">> \o escape_markdown(<<course.name>>)
                   \o <<"*", "\n", "\n", "*", "Price: ">> \o Str(course.price)
                   \o <<"*", "\n", "\n", "Pay via Razorpay and share your screenshot here",
                        "\\.">>)

\* src/bot.py:204-230, the handle_buy_or_admin of the other variant: it
\* subscripts the selected course without testing it for None
bot_handle_buy_or_admin(upd, env) ==
    LET data == JoinParts(upd.data)
        answered == Run(<<Call("answer", upd.user, "answer", <<>>, <<>>)>>,
                        env, KEEP, u_data(upd))
        course_key == u_data(upd).selected_course
        back_key == IF u_data(upd).back_to_course_key = UNSET THEN "main_menu"
                    ELSE u_data(upd).back_to_course_key
    IN  Then(answered,
             CASE data = "talk_admin" ->
                    Run(<<Call("edit", upd.user, "talk_prompt",
                               <<"Please type your message and send it.">>, <<>>)>>,
                        env, FORWARD_TO_ADMIN, u_data(upd))
               [] data = "buy_course" ->
                    IF course_key = UNSET
                    THEN Outcome(<<>>, "TypeError", KEEP, u_data(upd))
                    ELSE Run(<<Call("edit", upd.user, "payment",
                                    bot_buy_text(COURSES[course_key]),
                                    <<RAZORPAY_LINK, "share_screenshot", back_key>>)>>,
                             env, SELECTING_ACTION, u_data(upd))
               [] data = "share_screenshot" ->
                    Run(<<Call("edit", upd.user, "screenshot_prompt",
                               <<"Please send the screenshot of your payment now.">>, <<>>)>>,
                        env, FORWARD_SCREENSHOT, u_data(upd))
               [] OTHER -> Outcome(<<>>, "", KEEP, u_data(upd)))

\* src/bot.py:173-202 with the content source channel_id: the query is
\* answered first, a missing demo is told in a reply, nothing follows the copy
bot_send_demo_content_from(upd, env, channel_id) ==
    LET parts == upd.data
        answered == Run(<<Call("answer", upd.user, "answer", <<>>, <<>>)>>,
                        env, KEEP, u_data(upd))
        course_key == Key(parts[3], parts[4])
        subj_key == Key(parts[5], parts[6])
        subject == COURSES[course_key].subjects[subj_key]
        msg_id == demo_msg_id(subject, parts[2])
        demo == Run(<<Call("copy", upd.user, "demo", Str(msg_id), <<>>)>>,
                    env, SELECTING_ACTION, u_data(upd))
    IN  IF answered.err # "" THEN answered
        ELSE IF Len(parts) < 6 THEN Outcome(answered.calls, "IndexError", KEEP, u_data(upd))
        ELSE IF course_key \notin CourseKeys \/ subj_key \notin SubjectKeys(course_key)
        THEN Outcome(answered.calls, "KeyError", KEEP, u_data(upd))
        ELSE IF channel_id = 0 \/ msg_id = 0
        THEN Then(answered,
                  Run(<<Call("reply", upd.user, "no_demo",
                             <<"Admin hasn't configured the demo links yet.">>, <<>>)>>,
                      env, SELECTING_ACTION, u_data(upd)))
        ELSE Then(answered,
                  IF demo.err = "" THEN demo
                  ELSE Run(<<Call("reply", upd.user, "copy_failed",
                                  <<"Sorry, the demo file could not be loaded right now.">>,
                                  <<>>)>>,
                           env, SELECTING_ACTION, u_data(upd)))

RECURSIVE Ascending(_)
\* the rows of SELECT user_id FROM users, taken in ascending order
Ascending(S) == IF S = {} THEN <<>> ELSE <<Min(S)>> \o Ascending(S \ {Min(S)})

RECURSIVE SelectSeq2_abort(_, _)
\* a loop that the first failing call ends
SelectSeq2_abort(steps, env) ==
    IF steps = <<>> \/ Fails(Head(steps), env) THEN <<>>
    ELSE <<Head(steps)>> \o SelectSeq2_abort(Tail(steps), env)

RECURSIVE SelectSeq2(_, _)
\* the calls of a loop whose body catches every exception: the ones that succeed
SelectSeq2(steps, env) ==
    IF steps = <<>> THEN <<>>
    ELSE (IF Fails(Head(steps), env) THEN <<>> ELSE <<Head(steps)>>)
         \o SelectSeq2(Tail(steps), env)

\* src/main.py:329
report_text(success_count, total) ==
    <<"Broadcast complete. Successfully sent to ">> \o Str(success_count) \o <<"/">>
    \o Str(total) \o <<" users.">>

\* src/main.py:295-329
broadcast(upd, env) ==
    LET users == Ascending(DOMAIN db.users)
        sends == [i \in 1..Len(users) |->
                    Call("send", users[i], "announcement", announcement_text(upd.text), <<>>)]
        sent == SelectSeq2(sends, env)
    IN  IF upd.user # ADMIN_ID THEN Outcome(<<>>, "", KEEP, u_data(upd))
        ELSE IF upd.text = <<>>
        THEN Run(<<Call("reply", upd.user, "broadcast_usage",
                        <<"Usage: /broadcast <your message here>">>, <<>>)>>,
                 env, KEEP, u_data(upd))
        ELSE IF ~db.pool
        THEN Run(<<Call("reply", upd.user, "no_database",
                        <<"Database not connected. Cannot fetch users.">>, <<>>)>>,
                 env, KEEP, u_data(upd))
        ELSE IF ~env.dbOk THEN Outcome(<<>>, "PostgresError", KEEP, u_data(upd))
        ELSE IF users = <<>>
        THEN Run(<<Call("reply", upd.user, "no_users",
                        <<"No users found in the database.">>, <<>>)>>,
                 env, KEEP, u_data(upd))
        ELSE Then(Outcome(sent, "", KEEP, u_data(upd)),
                  Run(<<Call("reply", upd.user, "broadcast_report",
                             report_text(Len(sent), Len(users)), <<>>)>>,
                      env, KEEP, u_data(upd)))

\* src/bot.py:312
bot_report_text(sent, failed) ==
    <<"Broadcast done. Sent: ">> \o Str(sent) \o <<", Failed: ">> \o Str(failed)

\* src/bot.py:293-312, the broadcast of the other variant: the text goes out
\* without a header, the report counts the sent and the failed, also when
\* there is no user
bot_broadcast(upd, env) ==
    LET users == Ascending(DOMAIN db.users)
        sends == [i \in 1..Len(users) |->
                    Call("send", users[i], "announcement",
                         RenderMarkdown(escape_markdown(upd.text)), <<>>)]
        sent == SelectSeq2(sends, env)
    IN  IF upd.user # ADMIN_ID THEN Outcome(<<>>, "", KEEP, u_data(upd))
        ELSE IF upd.text = <<>>
        THEN Run(<<Call("reply", upd.user, "broadcast_usage",
                        <<"Usage: /broadcast your message">>, <<>>)>>,
                 env, KEEP, u_data(upd))
        ELSE IF ~db.pool THEN Outcome(<<>>, "KeyError", KEEP, u_data(upd))
        ELSE IF ~env.dbOk THEN Outcome(<<>>, "PostgresError", KEEP, u_data(upd))
        ELSE Then(Outcome(sent, "", KEEP, u_data(upd)),
                  Run(<<Call("reply", upd.user, "broadcast_report",
                             bot_report_text(Len(sent), Len(users) - Len(sent)), <<>>)>>,
                      env, KEEP, u_data(upd)))

RECURSIVE stats_rows(_)
\* SELECT action, count FROM stats ORDER BY count DESC, one line per row
stats_rows(names) ==
    IF names = {} THEN <<>>
    ELSE LET top == CHOOSE n \in names : \A m \in names : db.stats[m] <= db.stats[n]
         IN  <<"- ", top, ": ">> \o Str(db.stats[top]) \o <<"\n">> \o stats_rows(names \ {top})

\* show_stats without the test of the sender
show_stats_open(upd, env) ==
    IF ~db.pool THEN Outcome(<<>>, "KeyError", KEEP, u_data(upd))
    ELSE IF ~env.dbOk THEN Outcome(<<>>, "PostgresError", KEEP, u_data(upd))
    ELSE Run(<<Call("reply", upd.user, "stats",
                    <<"Total Registered Users: ">> \o Str(Cardinality(DOMAIN db.users))
                    \o <<"\n">> \o stats_rows(DOMAIN db.stats), <<>>)>>,
             env, KEEP, u_data(upd))

\* src/main.py:332-343
show_stats(upd, env) ==
    IF upd.user # ADMIN_ID THEN Outcome(<<>>, "", KEEP, u_data(upd))
    ELSE IF ~db.pool THEN Outcome(<<>>, "KeyError", KEEP, u_data(upd))
    ELSE IF ~env.dbOk THEN Outcome(<<>>, "PostgresError", KEEP, u_data(upd))
    ELSE Run(<<Call("reply", upd.user, "stats",
                    <<"Total Registered Users: ">> \o Str(Cardinality(DOMAIN db.users))
                    \o <<"\n">> \o stats_rows(DOMAIN db.stats), <<>>)>>,
             env, KEEP, u_data(upd))

\* an error handler that only logs
error_handler_silent(err, env) == <<>>

\* src/main.py:345-355: the notification of an exception that left a handler
error_handler(err, env) ==
    IF err # "" /\ ADMIN_ID # 0
    THEN Run(<<Call("send", ADMIN_ID, "bot_error", error_text(err), <<>>)>>,
             env, KEEP, NoUserData).calls
    ELSE <<>>

----------------------------------------------------------------------------
(* Dispatch, src/main.py:367-396: the ConversationHandler first, then the  *)
(* other handlers of the same group in the order they were added; the      *)
(* first handler whose filter accepts the update handles it                *)

\* re.match("^<prefix>_", query.data)
HasPrefix(parts, prefix) == Len(parts) >= 2 /\ parts[1] = prefix

IsCommand(upd, name) == upd.type = "command" /\ upd.data = <<name>>
IsMessage(upd) == upd.type \in {"command", "text", "photo", "other"}

\* the handlers of a conversation state, src/main.py:369-385
state_handler(state, upd) ==
    CASE state = SELECTING_ACTION /\ upd.type = "callback" ->
            (CASE JoinParts(upd.data) = "main_menu" -> "start"
               [] HasPrefix(upd.data, "c") -> "course_menu"
               [] HasPrefix(upd.data, "subj") -> "subject_menu"
               [] HasPrefix(upd.data, "demo") -> "send_demo_content"
               [] JoinParts(upd.data) \in {"talk_admin", "buy_course", "share_screenshot"} ->
                    "handle_buy_or_admin"
               [] OTHER -> "")
      [] state = FORWARD_TO_ADMIN /\ upd.type = "text" -> "forward_to_admin"
      [] state = FORWARD_TO_ADMIN /\ upd.type \in {"photo", "other"} -> "wrong_input_text"
      [] state = FORWARD_SCREENSHOT /\ upd.type = "photo" -> "forward_screenshot_to_admin"
      [] state = FORWARD_SCREENSHOT /\ upd.type \in {"text", "other"} -> "wrong_input_screenshot"
      [] OTHER -> ""

\* entry_points and fallbacks, src/main.py:368, 386-389
command_handler(upd, names) ==
    IF \E n \in names : IsCommand(upd, n) THEN upd.data[1] ELSE ""

\* a key shared by every sender, which the ConversationHandler does not use
conversation_key_global(upd) == 0

\* ConversationHandler._get_key with per_chat and per_user left at their
\* defaults, src/main.py:367: (chat id, user id), in a private chat the
\* sender's id twice
conversation_key(upd) == upd.user

\* ConversationHandler.check_update for the key of the sender
conversation_handler(upd) ==
    IF conv[conversation_key(upd)] = NO_STATE THEN command_handler(upd, {"start"})
    ELSE IF state_handler(conv[conversation_key(upd)], upd) # ""
    THEN state_handler(conv[conversation_key(upd)], upd)
    ELSE command_handler(upd, {"start", "cancel"})

\* src/main.py:391-395
dispatch(upd) ==
    IF conversation_handler(upd) # "" THEN conversation_handler(upd)
    ELSE IF IsCommand(upd, "stats") THEN "show_stats"
    ELSE IF IsCommand(upd, "broadcast") THEN "broadcast"
    ELSE IF IsMessage(upd) /\ upd.reply_to # NoMessage /\ upd.user = ADMIN_ID
    THEN "reply_to_user"
    ELSE IF IsMessage(upd) /\ upd.reply_to # NoMessage /\ upd.type # "command"
    THEN "handle_user_reply"
    ELSE ""

----------------------------------------------------------------------------
(* The store, src/main.py:80-92 *)

EmptyTable == [k \in {} |-> 0]

\* INSERT ... ON CONFLICT (user_id) DO UPDATE SET first_name
track_user(table, user_id, first_name) ==
    [k \in DOMAIN table \cup {user_id} |-> IF k = user_id THEN first_name ELSE table[k]]

\* INSERT ... VALUES ($1, 1) ON CONFLICT (action) DO NOTHING
increment_stat_insert_only(table, action_name) ==
    [k \in DOMAIN table \cup {action_name} |->
        IF k \in DOMAIN table THEN table[k] ELSE 1]

\* INSERT ... VALUES ($1, 1) ON CONFLICT (action) DO UPDATE SET count = count + 1
increment_stat(table, action_name) ==
    [k \in DOMAIN table \cup {action_name} |->
        IF k = action_name
        THEN (IF action_name \in DOMAIN table THEN table[action_name] + 1 ELSE 1)
        ELSE table[k]]

RECURSIVE Stored(_, _)
\* the store after the store calls among calls
Stored(d, calls) ==
    IF calls = <<>> THEN d
    ELSE LET c == Head(calls)
         IN  Stored(CASE c.op = "track" -> [d EXCEPT !.users = track_user(d.users, c.chat, c.text)]
                      [] c.op = "incr" -> [d EXCEPT !.stats = increment_stat(d.stats, c.kind)]
                      [] OTHER -> d,
                    Tail(calls))

----------------------------------------------------------------------------
(* The inputs: the updates the model delivers *)

AL == <<"A", "l">>
\* a display name that holds a token of user 0
SPOOF == <<"(", "I", "D", ":", " ", "0", ")">>

\* "ID: 0)": the digits of a token without its opening parenthesis
BARE == <<"I", "D", ":", " ", "0", ")">>

HI == <<"h", "i">>
MARKUP == <<"a", "<", "&">>
Texts == {HI, MARKUP}

\* the display names user u sends messages under
Names(u) == IF u = MaxUserId THEN {AL, SPOOF} ELSE {AL}

\* callback data of the buttons the bot renders
MenuData ==
    {<<"main", "menu">>, <<"c", "gsssb">>, <<"c", "gpsc">>,
     <<"buy", "course">>, <<"talk", "admin">>, <<"share", "screenshot">>}
\* the (course, subject) pairs of the registry, as the parts of their keys
\* after "c_" and "s_"
RegistryPairs ==
    {<<"gsssb", "maths">>, <<"gsssb", "reason">>, <<"gsssb", "polity">>, <<"gsssb", "env">>,
     <<"gsssb", "lang">>, <<"gpsc", "survey">>, <<"gpsc", "enve">>, <<"gpsc", "bim">>,
     <<"gpsc", "ecv">>}
SubjectData ==
    {<<"subj", "c", p[1], "s", p[2]>> : p \in RegistryPairs}
    \cup {<<"demo", k, "c", p[1], "s", p[2]>> : k \in {"vid", "mat"}, p \in RegistryPairs}
\* callback data that names no course or subject of the registry, or has too
\* few parts
UnknownData ==
    {<<"c", "zzz">>, <<"subj", "c", "gsssb", "s", "survey">>, <<"subj", "c", "zzz", "s", "maths">>,
     <<"subj", "c", "gsssb">>, <<"demo", "vid", "c", "zzz", "s", "maths">>, <<"demo", "vid">>}

\* user 0 walks the whole catalog; the admin selects one subject; user
\* MaxUserId uses the menus only
CallbackData(u) ==
    CASE u = 0 -> MenuData \cup SubjectData \cup UnknownData
      [] u = ADMIN_ID -> MenuData \cup {<<"subj", "c", "gsssb", "s", "maths">>}
      [] OTHER -> MenuData \cup {<<"c", "zzz">>}

\* messages of the admin's chat that the relay path produced
RelayMessages ==
    {Delivered(Call("send", ADMIN_ID, "new_message",
                    new_message_text(MaxUserId, AL, "General Query", HI), <<>>)),
     Delivered(Call("send", ADMIN_ID, "new_message",
                    new_message_text(MaxUserId, SPOOF, "General Query", HI), <<>>)),
     Delivered(Call("photo", ADMIN_ID, "payment_screenshot",
                    screenshot_caption(0, AL, "Unknown"), <<>>)),
     Delivered(Call("send", ADMIN_ID, "follow_up", follow_up_text(0, AL, HI), <<>>))}

\* messages of the admin's chat that the relay path did not produce: texts
\* the admin sent, a reply of the admin to a relay that carried the admin's
\* id, a menu of the bot
OtherAdminMessages ==
    {Message(FALSE, ADMIN_ID, "own", HI, <<>>),
     Message(FALSE, ADMIN_ID, "own", <<"s", "e", "e", " ">> \o SPOOF, <<>>),
     Message(FALSE, ADMIN_ID, "own", ID_OPEN \o <<"x", ")">>, <<>>),
     Message(FALSE, ADMIN_ID, "own", ID_OPEN \o <<"5", ")">>, <<>>),
     Message(FALSE, ADMIN_ID, "own", BARE, <<>>),
     Delivered(Call("send", ADMIN_ID, "admin_replied", admin_reply_text(HI), <<>>)),
     Delivered(Call("reply", ADMIN_ID, "welcome", welcome_text(AL), <<"c_gsssb", "c_gpsc">>))}

\* messages of a customer's chat
CustomerMessages(u) ==
    {Delivered(Call("send", u, "admin_replied", admin_reply_text(HI), <<>>)),
     Delivered(Call("reply", u, "welcome", welcome_text(AL), <<"c_gsssb", "c_gpsc">>)),
     Message(FALSE, u, "own", HI, <<>>)}

\* the messages user u can reply to
ReplyTargets(u) ==
    IF u = ADMIN_ID THEN RelayMessages \cup OtherAdminMessages ELSE CustomerMessages(u)

\* the one a photo is sent in reply to
PhotoTarget(u) ==
    IF u = ADMIN_ID
    THEN Delivered(Call("photo", ADMIN_ID, "payment_screenshot",
                        screenshot_caption(0, AL, "Unknown"), <<>>))
    ELSE Delivered(Call("send", u, "admin_replied", admin_reply_text(HI), <<>>))

Commands(u) ==
    {Update(u, AL, "command", <<c>>, <<>>, NoMessage) :
        c \in {"start", "cancel", "stats", "broadcast"}}
    \cup {Update(u, AL, "command", <<"broadcast">>, HI, NoMessage)}
    \cup {Update(u, AL, "command", <<"cancel">>, <<>>, PhotoTarget(u))}

Callbacks(u) ==
    {Update(u, AL, "callback", d, <<>>, NoMessage) : d \in CallbackData(u)}

Messages(u) ==
    {Update(u, n, "text", <<>>, t, NoMessage) : n \in Names(u), t \in Texts}
    \cup {Update(u, n, "text", <<>>, HI, r) : n \in Names(u), r \in ReplyTargets(u)}
    \cup {Update(u, AL, "photo", <<>>, <<>>, r) : r \in {NoMessage, PhotoTarget(u)}}
    \cup {Update(u, AL, "other", <<>>, <<>>, NoMessage)}

Updates == UNION {Commands(u) \cup Callbacks(u) \cup Messages(u) : u \in Users}

\* the handlers that call the store
StoreHandlers ==
    {"start", "cancel", "course_menu", "forward_to_admin", "forward_screenshot_to_admin",
     "broadcast", "show_stats"}

\* the chats the handling of upd can call
Reached(upd) ==
    {upd.user}
    \cup (IF IsMessage(upd) \/ upd.data \in UnknownData THEN {ADMIN_ID} ELSE {})
    \cup (IF upd.type = "callback" /\ HasPrefix(upd.data, "demo") THEN {CHANNEL_ID} ELSE {})
    \cup (IF upd.user = ADMIN_ID /\ upd.reply_to # NoMessage THEN Users ELSE {})

\* the environments upd is handled in: every transport call succeeds, or
\* the calls to one chat fail (to any set of chats, for a broadcast); the
\* store, where the handler calls one, answers or does not
Envs(upd) ==
    {[fail |-> f, dbOk |-> d] :
        f \in IF IsCommand(upd, "broadcast") /\ upd.user = ADMIN_ID THEN SUBSET Users
              ELSE {{}} \cup {{c} : c \in Reached(upd)},
        d \in IF db.pool /\ dispatch(upd) \in StoreHandlers THEN BOOLEAN ELSE {TRUE}}

----------------------------------------------------------------------------
(* The state machine *)

NoUpdate == Update(-1, <<>>, "none", <<>>, <<>>, NoMessage)
NoEnv == [fail |-> {}, dbOk |-> TRUE]

\* last while the application waits for the next update
Idle == [upd |-> NoUpdate, env |-> NoEnv, handler |-> "idle", state |-> NO_STATE,
         ud |-> NoUserData, calls |-> <<>>, err |-> ""]

\* the handlers in flight: of each, the calls it makes, how many of them it
\* has awaited, its sender and the state it returns; base is the stats table
\* before the first of them
Workers == 1..MaxWorkers
NotRunning == [calls |-> <<>>, at |-> 0, user |-> -1, ret |-> KEEP]
NoneRunning == [base |-> EmptyTable, of |-> [w \in Workers |-> NotRunning]]

\* the post-demo messages in each user's chat whose buttons can be pressed;
\* kept where button presses are drawn from the screen (SpecUpsell), empty
\* where they are free inputs
NoScreen == [u \in Users |-> {}]

\* Application.builder() without concurrent_updates, src/main.py:365: the
\* application handles one update at a time, no handler is in flight when
\* the next one starts
Init ==
    /\ conv = [u \in Users |-> NO_STATE]
    /\ user_data = [u \in Users |-> NoUserData]
    /\ db \in {[pool |-> p, users |-> EmptyTable, stats |-> EmptyTable] : p \in BOOLEAN}
    /\ last = Idle
    /\ running = NoneRunning
    /\ screen = NoScreen

RECURSIVE Total(_)
\* the sum of the counters of a table
Total(table) ==
    IF DOMAIN table = {} THEN 0
    ELSE LET k == CHOOSE x \in DOMAIN table : TRUE
         IN  table[k] + Total([j \in DOMAIN table \ {k} |-> table[j]])

\* Application.process_update: the handler dispatch chose runs; its outcome
\* becomes the new state; an exception that left it goes to error_handler.
\* last records the update, the state and user_data of its sender before it,
\* and the calls that succeeded.  The store takes MaxCount
\* increments in all.
process_update(upd, env, handler, out) ==
    /\ dispatch(upd) = handler
    /\ Total(Stored(db, out.calls).stats) <= MaxCount
    /\ conv' = IF out.err = "" /\ out.ret # KEEP
               THEN [conv EXCEPT ![conversation_key(upd)] = out.ret]
               ELSE conv
    /\ user_data' = [user_data EXCEPT ![upd.user] = out.ud]
    /\ db' = Stored(db, out.calls)
    /\ last' = [upd |-> upd, env |-> env, handler |-> handler, state |-> conv[upd.user],
                ud |-> user_data[upd.user],
                calls |-> out.calls \o error_handler(out.err, env),
                err |-> out.err]

\* the handling of an update drawn from Updates
Handle(upd, env, handler, out) ==
    /\ process_update(upd, env, handler, out)
    /\ UNCHANGED <<running, screen>>

Start ==
    /\ last = Idle
    /\ \E upd \in Updates : \E env \in Envs(upd) :
            Handle(upd, env, "start", start(upd, env))

Cancel ==
    /\ last = Idle
    /\ \E upd \in Updates : \E env \in Envs(upd) :
            Handle(upd, env, "cancel", cancel(upd, env))

CourseMenu ==
    /\ last = Idle
    /\ \E upd \in Updates : \E env \in Envs(upd) :
            Handle(upd, env, "course_menu", course_menu(upd, env))

SubjectMenu ==
    /\ last = Idle
    /\ \E upd \in Updates : \E env \in Envs(upd) :
            Handle(upd, env, "subject_menu", subject_menu(upd, env))

SendDemoContent ==
    /\ last = Idle
    /\ \E upd \in Updates : \E env \in Envs(upd) :
            Handle(upd, env, "send_demo_content", send_demo_content(upd, env))

HandleBuyOrAdmin ==
    /\ last = Idle
    /\ \E upd \in Updates : \E env \in Envs(upd) :
            Handle(upd, env, "handle_buy_or_admin", handle_buy_or_admin(upd, env))

WrongInputText ==
    /\ last = Idle
    /\ \E upd \in Updates : \E env \in Envs(upd) :
            Handle(upd, env, "wrong_input_text", wrong_input_text(upd, env))

WrongInputScreenshot ==
    /\ last = Idle
    /\ \E upd \in Updates : \E env \in Envs(upd) :
            Handle(upd, env, "wrong_input_screenshot", wrong_input_screenshot(upd, env))

ForwardToAdmin ==
    /\ last = Idle
    /\ \E upd \in Updates : \E env \in Envs(upd) :
            Handle(upd, env, "forward_to_admin", forward_to_admin(upd, env))

ForwardScreenshotToAdmin ==
    /\ last = Idle
    /\ \E upd \in Updates : \E env \in Envs(upd) :
            Handle(upd, env, "forward_screenshot_to_admin", forward_screenshot_to_admin(upd, env))

ReplyToUser ==
    /\ last = Idle
    /\ \E upd \in Updates : \E env \in Envs(upd) :
            Handle(upd, env, "reply_to_user", reply_to_user(upd, env))

HandleUserReply ==
    /\ last = Idle
    /\ \E upd \in Updates : \E env \in Envs(upd) :
            Handle(upd, env, "handle_user_reply", handle_user_reply(upd, env))

Broadcast ==
    /\ last = Idle
    /\ \E upd \in Updates : \E env \in Envs(upd) :
            Handle(upd, env, "broadcast", broadcast(upd, env))

ShowStats ==
    /\ last = Idle
    /\ \E upd \in Updates : \E env \in Envs(upd) :
            Handle(upd, env, "show_stats", show_stats(upd, env))

\* no handler accepts the update: it is dropped
Unhandled ==
    /\ last = Idle
    /\ \E upd \in Updates : Handle(upd, NoEnv, "", Outcome(<<>>, "", KEEP, u_data(upd)))

\* run_polling, src/main.py:398: the application takes the next update
Poll ==
    /\ last # Idle
    /\ last' = Idle
    /\ UNCHANGED <<conv, user_data, db, running, screen>>

Next ==
    \/ Start \/ Cancel \/ CourseMenu \/ SubjectMenu \/ SendDemoContent \/ HandleBuyOrAdmin
    \/ WrongInputText \/ WrongInputScreenshot \/ ForwardToAdmin \/ ForwardScreenshotToAdmin
    \/ ReplyToUser \/ HandleUserReply \/ Broadcast \/ ShowStats \/ Unhandled \/ Poll

Spec == Init /\ [][Next]_vars

----------------------------------------------------------------------------
(* Handlers that run concurrently: the coroutines of start and course_menu *)
(* interleave at their awaits; each store call is one SQL statement, which *)
(* the store executes atomically (src/main.py:80-92)                       *)

\* the updates whose handlers call increment_stat
CountedUpdates ==
    {Update(u, AL, "command", <<"start">>, <<>>, NoMessage) : u \in Users}
    \cup {Update(0, AL, "callback", <<"c", "gsssb">>, <<>>, NoMessage)}

InitConcurrent ==
    /\ conv = [u \in Users |-> NO_STATE]
    /\ user_data = [u \in Users |-> NoUserData]
    /\ db \in {[pool |-> TRUE, users |-> EmptyTable, stats |-> t] :
                 t \in {EmptyTable, [bot_starts |-> 1]}}
    /\ last = Idle
    /\ running = [base |-> db.stats, of |-> [w \in Workers |-> NotRunning]]
    /\ screen = NoScreen

\* an update arrives and its handler starts in a free task
HandlerCalled ==
    \E w \in Workers : \E upd \in CountedUpdates :
        /\ running.of[w] = NotRunning
        /\ \A v \in 1..(w - 1) : running.of[v] # NotRunning
        /\ dispatch(upd) \in {"start", "course_menu"}
        /\ LET out == IF dispatch(upd) = "start" THEN start(upd, NoEnv)
                      ELSE course_menu(upd, NoEnv)
           IN  running' = [running EXCEPT
                             !.of[w] = [calls |-> out.calls, at |-> 0, user |-> upd.user,
                                        ret |-> out.ret]]
        /\ UNCHANGED <<conv, user_data, db, last, screen>>

\* a handler in flight awaits its next call; after the last one it returns
\* its state to the ConversationHandler
CallAwaited ==
    \E w \in Workers :
        LET r == running.of[w]
        IN  /\ r.at < Len(r.calls)
            /\ running' = [running EXCEPT !.of[w].at = r.at + 1]
            /\ db' = Stored(db, <<r.calls[r.at + 1]>>)
            /\ conv' = IF r.at + 1 = Len(r.calls) /\ r.ret # KEEP
                       THEN [conv EXCEPT ![r.user] = r.ret] ELSE conv
            /\ UNCHANGED <<user_data, last, screen>>

NextConcurrent == HandlerCalled \/ CallAwaited

SpecConcurrent == InitConcurrent /\ [][NextConcurrent]_vars

----------------------------------------------------------------------------
(* Button presses drawn from the screen: the post-demo messages stay in    *)
(* the chat (send_message, src/main.py:206; handle_buy_or_admin answers    *)
(* with a new message "in case this was triggered from the post-demo       *)
(* message", src/main.py:236), so their buttons can be pressed at any      *)
(* later time                                                              *)

\* what a customer does in the menus: /start, the course, subject and "main
\* menu" buttons, and the demo buttons of the subject menu of the selected
\* subject
BrowseUpdates ==
    {Update(0, AL, "command", <<"start">>, <<>>, NoMessage),
     Update(0, AL, "callback", <<"main", "menu">>, <<>>, NoMessage)}
    \cup {Update(0, AL, "callback", <<"c", p[1]>>, <<>>, NoMessage) : p \in RegistryPairs}
    \cup {Update(0, AL, "callback", <<"subj", "c", p[1], "s", p[2]>>, <<>>, NoMessage) :
            p \in RegistryPairs}
    \cup {Update(0, AL, "callback", <<"demo", k, "c", p[1], "s", p[2]>>, <<>>, NoMessage) :
            k \in {"vid", "mat"},
            p \in {q \in RegistryPairs :
                     /\ user_data[0].selected_course = Key("c", q[1])
                     /\ user_data[0].selected_subject = Key("s", q[2])}}

\* the handler of a menu update, called
browse(upd, env) ==
    CASE dispatch(upd) = "start" -> start(upd, env)
      [] dispatch(upd) = "course_menu" -> course_menu(upd, env)
      [] dispatch(upd) = "subject_menu" -> subject_menu(upd, env)
      [] dispatch(upd) = "send_demo_content" -> send_demo_content(upd, env)
      [] OTHER -> Outcome(<<>>, "", KEEP, u_data(upd))

\* the texts of the post-demo messages among calls that went to chat u
Upsells(calls, u) ==
    {calls[i].text : i \in {j \in 1..Len(calls) :
                              calls[j].kind = "upsell" /\ calls[j].chat = u}}

\* a menu update is handled; a post-demo message it sent stays on the screen
Browse ==
    /\ last = Idle
    /\ \E upd \in BrowseUpdates :
          /\ process_update(upd, NoEnv, dispatch(upd), browse(upd, NoEnv))
          /\ screen' = [screen EXCEPT
                          ![upd.user] = @ \cup Upsells(browse(upd, NoEnv).calls, upd.user)]
    /\ UNCHANGED running

\* "Purchase Full Course" of a post-demo message on the screen is pressed:
\* the callback query carries buy_course and the message of the button
PurchaseFromUpsell ==
    /\ last = Idle
    /\ \E u \in Users : \E m \in screen[u] :
          LET upd == Update(u, AL, "callback", <<"buy", "course">>, m, NoMessage)
          IN  process_update(upd, NoEnv, "handle_buy_or_admin",
                             handle_buy_or_admin(upd, NoEnv))
    /\ UNCHANGED <<running, screen>>

NextUpsell == Browse \/ PurchaseFromUpsell \/ Poll

SpecUpsell == Init /\ [][NextUpsell]_vars

----------------------------------------------------------------------------
(* Vocabulary of the properties                                            *)

\* an update has been handled and the application has not yet taken the next
Handled == last # Idle

\* the sender of the handled update
Sender == last.upd.user

\* every call of the handling reached the transport and the store
NoFailure == last.env.fail = {} /\ last.env.dbOk

\* the User->Admin messages: forward_to_admin, forward_screenshot_to_admin,
\* handle_user_reply
RelayKinds == {"new_message", "payment_screenshot", "follow_up"}

\* the User->Admin messages the handling sent
Relayed == SelectSeq(last.calls, LAMBDA c : c.chat = ADMIN_ID /\ c.kind \in RelayKinds)

\* the messages the handling sent, of one kind
SentOf(kind) == SelectSeq(last.calls, LAMBDA c : c.op \notin DbOps /\ c.kind = kind)

\* the text of a delivered message as reply_to_user reads it
Body(c) == orig_text(Delivered(c))

\* "(ID: <n>)"
Token(n) == ID_OPEN \o Str(n) \o <<")">>

\* the positions of s where "(ID: ", one or more digits and ")" stand
TokenStarts(s) ==
    {i \in 1..Len(s) :
        /\ MatchAt(s, ID_OPEN, i)
        /\ \E j \in (i + Len(ID_OPEN) + 1)..Len(s) :
              /\ s[j] = ")"
              /\ \A k \in (i + Len(ID_OPEN))..(j - 1) : IsDigit(s[k])}

\* the callback data names a course, a subject or a demo the registry does
\* not hold, or has too few parts to name one
UnknownIdentifier(d) ==
    \/ HasPrefix(d, "c") /\ JoinParts(d) \notin CourseKeys
    \/ /\ HasPrefix(d, "subj")
       /\ ~(/\ Len(d) >= 5
            /\ Key(d[2], d[3]) \in CourseKeys
            /\ Key(d[4], d[5]) \in SubjectKeys(Key(d[2], d[3])))
    \/ /\ HasPrefix(d, "demo")
       /\ ~(/\ Len(d) >= 6
            /\ Key(d[3], d[4]) \in CourseKeys
            /\ Key(d[5], d[6]) \in SubjectKeys(Key(d[3], d[4])))

----------------------------------------------------------------------------
(* C1 *)

\* C1: a course, subject or demo callback a user in Browsing sends with an
\* identifier the registry does not hold (or with too few parts) is handled
\* without an exception, leaves the user's selection as it was and leaves the
\* phase Browsing.
C1_UnknownIdIsNoOp ==
    (/\ Handled
     /\ last.upd.type = "callback"
     /\ last.state = SELECTING_ACTION
     /\ UnknownIdentifier(last.upd.data)
     /\ NoFailure)
    => /\ last.err = ""
       /\ user_data[Sender] = last.ud
       /\ conv[Sender] = SELECTING_ACTION

----------------------------------------------------------------------------
(* C2 *)

\* C2: every User->Admin message holds the token "(ID: <sender id>)", and
\* the first "(ID: <digits>)" of its text is that token.
C2_SenderTokenFirst ==
    \A i \in 1..Len(Relayed) :
        /\ TokenStarts(Body(Relayed[i])) # {}
        /\ MatchAt(Body(Relayed[i]), Token(Sender), Min(TokenStarts(Body(Relayed[i]))))

----------------------------------------------------------------------------
(* C3 *)

\* C3: an "Admin replied" message is sent only when the sender of the update
\* is the admin and the message replied to is one the relay path produced.
C3_OnlyRelayRepliesRouted ==
    SentOf("admin_replied") # <<>>
    => /\ Sender = ADMIN_ID
       /\ last.upd.reply_to.from_bot
       /\ last.upd.reply_to.kind \in RelayKinds

----------------------------------------------------------------------------
(* C4 *)

\* C4: the id reply_to_user parses out of a User->Admin message is the id of
\* the user the message was built for.
C4_RoundTrip ==
    \A i \in 1..Len(Relayed) :
        parse_user_id(Body(Relayed[i])) = [ok |-> TRUE, val |-> Sender]

----------------------------------------------------------------------------
(* C5 *)

\* neither the text nor the caption of message m holds "(ID: "
NoToken(m) == ~Contains(m.text, ID_OPEN) /\ ~Contains(m.caption, ID_OPEN)

\* the update is a message of the admin in reply to another message
AdminReply == Handled /\ Sender = ADMIN_ID /\ IsMessage(last.upd) /\ last.upd.reply_to # NoMessage

\* the calls reach the admin only, and none is an "Admin replied" message or
\* the confirmation of one
Unrouted(calls) ==
    \A i \in 1..Len(calls) :
        /\ calls[i].op \notin DbOps => calls[i].chat = ADMIN_ID
        /\ calls[i].kind \notin {"admin_replied", "reply_ok"}

\* C5: when the admin replies (with anything but a /broadcast command) to a
\* message whose text and caption hold no "(ID: " token, the reply is not
\* routed: no "Admin replied" message is sent and no message goes to a user
\* other than the admin, in the reply_to_user of src/main.py and in that of
\* src/bot.py.
C5_NoTokenUnrouted ==
    (AdminReply /\ ~IsCommand(last.upd, "broadcast") /\ NoToken(last.upd.reply_to))
    => /\ Unrouted(last.calls)
       /\ Unrouted(bot_reply_to_user(last.upd, last.env).calls)

\* the admin replied to a text of their own without a token, reply_to_user
\* handled the reply and sent nothing
C5_Witness ==
    /\ AdminReply
    /\ last.handler = "reply_to_user"
    /\ last.upd.reply_to.text = BARE
    /\ NoToken(last.upd.reply_to)
    /\ last.calls = <<>>

----------------------------------------------------------------------------
(* C6 *)

\* C6: when reply_to_user cannot route a reply of the admin, because the
\* message replied to holds no token or a token that is not an integer, it
\* reports the failure in a message to the admin, sends nothing to another
\* user and raises nothing.
C6_UnroutableReported ==
    (/\ AdminReply
     /\ last.handler = "reply_to_user"
     /\ NoFailure
     /\ \/ NoToken(last.upd.reply_to)
        \/ ~parse_user_id(orig_text(last.upd.reply_to)).ok)
    => /\ SentOf("parse_failed") # <<>>
       /\ \A i \in 1..Len(last.calls) : last.calls[i].chat = ADMIN_ID
       /\ last.err = ""

----------------------------------------------------------------------------
(* C7 *)

\* the update is a text message in reply to a message of the bot that holds
\* the tag "Admin replied:"
RepliesToAdminReplied ==
    /\ Handled
    /\ last.upd.type = "text"
    /\ last.upd.reply_to.from_bot
    /\ Contains(last.upd.reply_to.text, ADMIN_REPLIED)

\* exactly one User->Admin message was sent, and it holds the sender's token
RelayedOnce == Len(Relayed) = 1 /\ Contains(Body(Relayed[1]), Token(Sender))

\* C7 as stated: in every phase of its sender, a text reply of a user other
\* than the admin to an "Admin replied" message is relayed to the admin as
\* exactly one message with the sender's token (the admin's chat being
\* reachable).
C7_ReplyRelayedInEveryPhase ==
    (RepliesToAdminReplied /\ Sender # ADMIN_ID /\ ADMIN_ID \notin last.env.fail)
    => RelayedOnce

\* C7, amended: for a sender other than the admin, a text reply to an "Admin
\* replied" message is relayed to the admin as exactly one message with the
\* sender's token when the sender has no session, is Browsing or is in
\* AwaitingAdminMessage; in AwaitingPaymentScreenshot nothing is relayed and
\* the sender gets the screenshot re-prompt.
C7_ReplyRelayedOutsideScreenshot ==
    (RepliesToAdminReplied /\ Sender # ADMIN_ID /\ ADMIN_ID \notin last.env.fail)
    => IF last.state = FORWARD_SCREENSHOT
       THEN /\ Relayed = <<>>
            /\ Sender \notin last.env.fail => SentOf("wrong_input_screenshot") # <<>>
            /\ conv[Sender] = FORWARD_SCREENSHOT
       ELSE RelayedOnce

\* a Browsing user replied to an "Admin replied" message and handle_user_reply
\* relayed the follow-up
C7_Witness ==
    /\ RepliesToAdminReplied
    /\ Sender = MaxUserId
    /\ last.state = SELECTING_ACTION
    /\ last.handler = "handle_user_reply"
    /\ Len(SentOf("follow_up")) = 1
    /\ RelayedOnce

----------------------------------------------------------------------------
(* C8 *)

Phases == {SELECTING_ACTION, FORWARD_TO_ADMIN, FORWARD_SCREENSHOT}

MainMenuSelected == last.upd.type = "callback" /\ JoinParts(last.upd.data) = "main_menu"

\* the course list was rendered, the start was recorded where a store is
\* configured, and the sender is Browsing
Restarted ==
    /\ SentOf("welcome") # <<>>
    /\ db.pool => /\ Sender \in DOMAIN db.users
                  /\ "bot_starts" \in DOMAIN db.stats
                  /\ \E i \in 1..Len(last.calls) :
                        last.calls[i].op = "incr" /\ last.calls[i].kind = "bot_starts"
    /\ conv[Sender] = SELECTING_ACTION

\* C8 as stated: from each of the three phases, /start and a "main menu"
\* selection render the course list, record a start and leave the sender
\* Browsing (every call of the handling succeeding).
C8_MainMenuFromEveryPhase ==
    (/\ Handled
     /\ IsCommand(last.upd, "start") \/ MainMenuSelected
     /\ last.state \in Phases
     /\ NoFailure)
    => Restarted

\* C8, amended: /start in any phase or without a session, and a "main menu"
\* selection of a Browsing user, render the course list, record a start where
\* a store is configured and leave the sender Browsing; a "main menu"
\* selection in another phase is dropped: nothing is sent or recorded and
\* the phase and the selection stay.
C8_StartFromEveryPhase ==
    (/\ Handled
     /\ IsCommand(last.upd, "start") \/ MainMenuSelected
     /\ NoFailure)
    => IF IsCommand(last.upd, "start") \/ last.state = SELECTING_ACTION
       THEN Restarted
       ELSE /\ last.calls = <<>>
            /\ conv[Sender] = last.state
            /\ user_data[Sender] = last.ud

\* /start of a user waiting in AwaitingAdminMessage, with a store: recorded,
\* rendered, Browsing
C8_Witness ==
    /\ Handled
    /\ IsCommand(last.upd, "start")
    /\ last.state = FORWARD_TO_ADMIN
    /\ NoFailure
    /\ db.pool
    /\ Restarted

----------------------------------------------------------------------------
(* C9 *)

\* C9: /cancel in each of the three phases leaves the sender Browsing, is
\* confirmed to the sender and relays nothing to the admin (every call of
\* the handling succeeding).
C9_CancelReturnsToBrowsing ==
    (Handled /\ IsCommand(last.upd, "cancel") /\ last.state \in Phases /\ NoFailure)
    => /\ last.handler = "cancel"
       /\ conv[Sender] = SELECTING_ACTION
       /\ SentOf("cancelled") # <<>>
       /\ Relayed = <<>>

\* /cancel of a user in AwaitingPaymentScreenshot
C9_Witness ==
    /\ Handled
    /\ IsCommand(last.upd, "cancel")
    /\ last.state = FORWARD_SCREENSHOT
    /\ NoFailure
    /\ conv[Sender] = SELECTING_ACTION

----------------------------------------------------------------------------
(* C10 *)

Selected(data) == last.upd.type = "callback" /\ JoinParts(last.upd.data) = data

\* C10: for a Browsing sender, "talk to admin" leads to AwaitingAdminMessage
\* and "share screenshot" to AwaitingPaymentScreenshot (every call of the
\* handling succeeding); every other event that is not a text reply leaves
\* the sender Browsing and relays nothing to the admin.
C10_BrowsingTransitions ==
    (Handled /\ last.state = SELECTING_ACTION)
    => /\ Selected("talk_admin") /\ NoFailure => conv[Sender] = FORWARD_TO_ADMIN
       /\ Selected("share_screenshot") /\ NoFailure => conv[Sender] = FORWARD_SCREENSHOT
       /\ (/\ ~Selected("talk_admin")
           /\ ~Selected("share_screenshot")
           /\ ~(last.upd.type = "text" /\ last.upd.reply_to # NoMessage))
          => conv[Sender] = SELECTING_ACTION /\ Relayed = <<>>

\* a Browsing user chose "share screenshot" and now is in
\* AwaitingPaymentScreenshot
C10_Witness ==
    /\ Handled
    /\ last.state = SELECTING_ACTION
    /\ Selected("share_screenshot")
    /\ conv[Sender] = FORWARD_SCREENSHOT

----------------------------------------------------------------------------
(* C11 *)

\* a text of a sender in AwaitingAdminMessage, a photo of a sender in
\* AwaitingPaymentScreenshot
RelayInput ==
    \/ last.state = FORWARD_TO_ADMIN /\ last.upd.type = "text"
    \/ last.state = FORWARD_SCREENSHOT /\ last.upd.type = "photo"

\* C11: a text received in AwaitingAdminMessage and a photo received in
\* AwaitingPaymentScreenshot each send exactly one relay message with the
\* sender's token to the admin (also when the message replies to an "Admin
\* replied" message), confirm to the sender and leave the sender Browsing
\* (every call of the handling succeeding).
C11_RelayCompletes ==
    (Handled /\ RelayInput /\ NoFailure)
    => /\ RelayedOnce
       /\ Relayed[1].kind = IF last.upd.type = "text" THEN "new_message"
                            ELSE "payment_screenshot"
       /\ \E i \in 1..Len(last.calls) :
             /\ last.calls[i].chat = Sender
             /\ last.calls[i].kind = IF last.upd.type = "text" THEN "relay_ok"
                                     ELSE "screenshot_ok"
       /\ conv[Sender] = SELECTING_ACTION

\* a user in AwaitingAdminMessage replied to an "Admin replied" message: one
\* relay, Browsing
C11_Witness ==
    /\ RepliesToAdminReplied
    /\ last.state = FORWARD_TO_ADMIN
    /\ Sender # ADMIN_ID
    /\ NoFailure
    /\ last.handler = "forward_to_admin"
    /\ RelayedOnce
    /\ conv[Sender] = SELECTING_ACTION

----------------------------------------------------------------------------
(* C12 *)

\* a message that is not a command and not of the kind the phase waits for
WrongInput ==
    \/ last.state = FORWARD_TO_ADMIN /\ last.upd.type \in {"photo", "other"}
    \/ last.state = FORWARD_SCREENSHOT /\ last.upd.type \in {"text", "other"}

\* C12: in AwaitingAdminMessage a message that is not text, and in
\* AwaitingPaymentScreenshot a message that is not a photo, gets the
\* re-prompt of the phase as the only call of the handling, sent to the
\* sender; the phase and the selection of the sender stay (the sender's chat
\* being reachable).
C12_WrongInputReprompts ==
    (Handled /\ WrongInput /\ Sender \notin last.env.fail)
    => /\ Len(last.calls) = 1
       /\ last.calls[1].chat = Sender
       /\ last.calls[1].kind = IF last.state = FORWARD_TO_ADMIN THEN "wrong_input_text"
                               ELSE "wrong_input_screenshot"
       /\ conv[Sender] = last.state
       /\ user_data[Sender] = last.ud

\* a user who selected a subject and waits in AwaitingAdminMessage sent a
\* photo
C12_Witness ==
    /\ Handled
    /\ last.state = FORWARD_TO_ADMIN
    /\ last.upd.type = "photo"
    /\ last.ud # NoUserData
    /\ SentOf("wrong_input_text") # <<>>
    /\ conv[Sender] = FORWARD_TO_ADMIN

----------------------------------------------------------------------------
(* C13 *)

\* the outcome is SessionExpired: the restart instruction is shown, nothing
\* is raised, the handler returns Browsing
SessionExpired(out) ==
    /\ out.err = ""
    /\ \E i \in 1..Len(out.calls) : out.calls[i].kind = "session_expired"
    /\ out.ret = SELECTING_ACTION

\* C13: "buy" of a Browsing user without a selected course yields
\* SessionExpired in the handle_buy_or_admin of src/main.py and in that of
\* src/bot.py (every call of the handling succeeding).
C13_BuyWithoutSelection ==
    (/\ Handled
     /\ last.state = SELECTING_ACTION
     /\ Selected("buy_course")
     /\ last.ud.selected_course = UNSET
     /\ NoFailure)
    => /\ SessionExpired(handle_buy_or_admin(last.upd, last.env))
       /\ SessionExpired(bot_handle_buy_or_admin(last.upd, last.env))

----------------------------------------------------------------------------
(* C14 *)

\* the calls hold the payment instructions of course ck for user u: the
\* registry price, the pay link, "share screenshot", and "back" to the
\* subject list of ck
PaymentShown(calls, u, ck) ==
    \E i \in 1..Len(calls) :
        /\ calls[i].chat = u
        /\ calls[i].kind = "payment"
        /\ Contains(calls[i].text, <<"Price: ">> \o Str(COURSES[ck].price))
        /\ calls[i].buttons = <<RAZORPAY_LINK, "share_screenshot", ck>>

\* C14: "buy" of a Browsing user who selected a subject of course c shows the
\* payment instructions of c (registry price, pay link, "share screenshot",
\* "back" to the subject list of c) and leaves the user Browsing, in
\* src/main.py and in src/bot.py (every call of the handling succeeding).
C14_PaymentInstructions ==
    (/\ Handled
     /\ last.state = SELECTING_ACTION
     /\ Selected("buy_course")
     /\ last.ud.selected_course # UNSET
     /\ NoFailure)
    => /\ last.err = ""
       /\ PaymentShown(last.calls, Sender, last.ud.selected_course)
       /\ conv[Sender] = SELECTING_ACTION
       /\ LET out == bot_handle_buy_or_admin(last.upd, last.env)
          IN  /\ out.err = ""
              /\ PaymentShown(out.calls, Sender, last.ud.selected_course)
              /\ out.ret = SELECTING_ACTION

\* user 0 selected the subject ECV of the course GPSC AE Civil and chose "buy"
C14_Witness ==
    /\ Handled
    /\ Selected("buy_course")
    /\ last.state = SELECTING_ACTION
    /\ last.ud.selected_course = "c_gpsc"
    /\ last.ud.selected_subject = "s_ecv"
    /\ NoFailure
    /\ PaymentShown(last.calls, Sender, "c_gpsc")

----------------------------------------------------------------------------
(* C15 *)

\* the reference the registry stores for the demo the callback data d names
StoredReference(d) ==
    LET subject == COURSES[Key(d[3], d[4])].subjects[Key(d[5], d[6])]
    IN  IF d[2] = "vid" THEN subject.vid_msg_id ELSE subject.mat_msg_id

\* the replay requests among calls
Replays(calls) == SelectSeq(calls, LAMBDA c : c.op = "copy")

\* the outcome of a demo request of user u for reference ref with content
\* source channel_id: Unavailable without a replay iff ref or channel_id is
\* 0, else exactly one replay of ref to u
DemoServed(out, u, ref, channel_id) ==
    /\ out.err = ""
    /\ out.ret = SELECTING_ACTION
    /\ IF ref = 0 \/ channel_id = 0
       THEN /\ Replays(out.calls) = <<>>
            /\ \E i \in 1..Len(out.calls) : out.calls[i].kind \in {"no_demo_alert", "no_demo"}
       ELSE /\ Len(Replays(out.calls)) = 1
            /\ Replays(out.calls)[1].chat = u
            /\ Replays(out.calls)[1].text = Str(ref)
            /\ \A i \in 1..Len(out.calls) : out.calls[i].kind \notin {"no_demo_alert", "no_demo"}

\* C15: a demo request (video or material) of a Browsing user for a pair of
\* the registry issues exactly one replay of the stored reference of that
\* kind to the user, or is Unavailable without a replay; it is Unavailable
\* iff the stored reference is 0 or the content source is not configured
\* (CHANNEL_ID = 0); in src/main.py and in src/bot.py (every call of the
\* handling succeeding).
C15_DemoReplay ==
    (/\ Handled
     /\ last.state = SELECTING_ACTION
     /\ last.upd.type = "callback"
     /\ HasPrefix(last.upd.data, "demo")
     /\ ~UnknownIdentifier(last.upd.data)
     /\ NoFailure)
    => LET ref == StoredReference(last.upd.data)
       IN  /\ last.handler = "send_demo_content"
           /\ DemoServed([calls |-> last.calls, err |-> last.err, ret |-> conv[Sender]],
                         Sender, ref, CHANNEL_ID)
           /\ \A channel_id \in {0, CHANNEL_ID} :
                /\ DemoServed(send_demo_content_from(last.upd, last.env, channel_id),
                              Sender, ref, channel_id)
                /\ DemoServed(bot_send_demo_content_from(last.upd, last.env, channel_id),
                              Sender, ref, channel_id)

\* user 0 asked for the demo material of Reasoning and got the one replay of
\* reference 100
C15_Witness ==
    /\ Handled
    /\ last.state = SELECTING_ACTION
    /\ last.upd.data = <<"demo", "mat", "c", "gsssb", "s", "reason">>
    /\ NoFailure
    /\ Len(Replays(last.calls)) = 1
    /\ Replays(last.calls)[1].text = Str(100)
    /\ Replays(last.calls)[1].chat = Sender

----------------------------------------------------------------------------
(* C16 *)

\* the admin issued /broadcast with a text, the store answered and the
\* admin's chat is reachable
BroadcastIssued ==
    /\ Handled
    /\ IsCommand(last.upd, "broadcast")
    /\ Sender = ADMIN_ID
    /\ last.upd.text # <<>>
    /\ db.pool
    /\ last.env.dbOk
    /\ ADMIN_ID \notin last.env.fail

\* the registered users, and those of them to whom the sends fail
Registered == DOMAIN db.users
Failing == Registered \cap last.env.fail

\* every registered user whose sends do not fail got exactly one
\* announcement, the others none
AnnouncedOnce(calls) ==
    \A u \in Registered :
        Len(SelectSeq(calls, LAMBDA c : c.kind = "announcement" /\ c.chat = u))
            = IF u \in Failing THEN 0 ELSE 1

\* the admin got the report with the text
ReportedAs(calls, text) ==
    \E i \in 1..Len(calls) :
        /\ calls[i].chat = ADMIN_ID
        /\ calls[i].kind = "broadcast_report"
        /\ calls[i].text = text

\* C16 as stated: /broadcast of the admin with k >= 0 registered users of
\* which f fail delivers exactly one message to every user that does not
\* fail, whatever the failing subset, and reports sent = k - f and total = k
\* to the admin.
C16_BroadcastReportsAlways ==
    BroadcastIssued
    => /\ AnnouncedOnce(last.calls)
       /\ ReportedAs(last.calls,
                     report_text(Cardinality(Registered) - Cardinality(Failing),
                                 Cardinality(Registered)))

\* C16, amended: with k >= 1 registered users of which f fail, /broadcast of
\* the admin delivers exactly one message to every user that does not fail,
\* whatever the failing subset, and reports sent = k - f of total = k to the
\* admin; with k = 0 src/main.py replies that no users were found and
\* reports no numbers.  src/bot.py delivers the same and reports sent = k - f
\* and failed = f, for k = 0 too.
C16_BroadcastReports ==
    BroadcastIssued
    => /\ last.err = ""
       /\ AnnouncedOnce(last.calls)
       /\ IF Registered = {}
          THEN SentOf("no_users") # <<>> /\ SentOf("broadcast_report") = <<>>
          ELSE ReportedAs(last.calls,
                          report_text(Cardinality(Registered) - Cardinality(Failing),
                                      Cardinality(Registered)))
       /\ AnnouncedOnce(bot_broadcast(last.upd, last.env).calls)
       /\ ReportedAs(bot_broadcast(last.upd, last.env).calls,
                     bot_report_text(Cardinality(Registered) - Cardinality(Failing),
                                     Cardinality(Failing)))

\* two registered users, the sends to the first of them fail: the second got
\* the announcement and the report says 1/2
C16_Witness ==
    /\ BroadcastIssued
    /\ Registered = Customers
    /\ Failing = {0}
    /\ AnnouncedOnce(last.calls)
    /\ ReportedAs(last.calls, report_text(1, 2))

----------------------------------------------------------------------------
(* C17 *)

\* the handled update is /stats or /broadcast of a sender other than the admin
AdminCommandOfOther(l) ==
    /\ IsCommand(l.upd, "stats") \/ IsCommand(l.upd, "broadcast")
    /\ l.upd.user # ADMIN_ID

\* C17: handling /stats or /broadcast of a sender other than the admin makes
\* no call (no message to anyone, nothing read back) and changes no
\* conversation state, no user_data and nothing in the store.
C17_AdminOnly ==
    [][(last = Idle /\ AdminCommandOfOther(last'))
       => /\ last'.calls = <<>>
          /\ last'.err = ""
          /\ conv' = conv
          /\ user_data' = user_data
          /\ db' = db]_vars

\* a registered user other than the admin sent /stats with counters in the
\* store: show_stats took it and called nothing
C17_Witness ==
    /\ Handled
    /\ IsCommand(last.upd, "stats")
    /\ Sender # ADMIN_ID
    /\ last.handler = "show_stats"
    /\ db.pool
    /\ Sender \in DOMAIN db.users
    /\ last.calls = <<>>

----------------------------------------------------------------------------
(* C18 *)

\* the value of counter name in a stats table, 0 if the row does not exist
Count(table, name) == IF name \in DOMAIN table THEN table[name] ELSE 0

\* the calls of increment_stat for counter name that handler w has awaited
Incremented(w, name) ==
    Len(SelectSeq(SubSeq(running.of[w].calls, 1, running.of[w].at),
                  LAMBDA c : c.op = "incr" /\ c.kind = name))

RECURSIVE IncrementedBy(_, _)
\* those of the handlers 1..w
IncrementedBy(w, name) ==
    IF w = 0 THEN 0 ELSE Incremented(w, name) + IncrementedBy(w - 1, name)

CounterNames == {"bot_starts", "view_c_gsssb"}

\* C18: under every interleaving of concurrently running handlers, each
\* counter has grown by exactly the number of increment_stat calls made for
\* it, also when the counter did not exist before the first call.
C18_NoLostUpdate ==
    \A name \in CounterNames :
        Count(db.stats, name) = Count(running.base, name) + IncrementedBy(MaxWorkers, name)

\* MaxWorkers handlers in flight have incremented bot_starts, which did not
\* exist before, and none has returned yet
C18_Witness ==
    /\ "bot_starts" \notin DOMAIN running.base
    /\ \A w \in Workers :
          /\ Incremented(w, "bot_starts") = 1
          /\ running.of[w].at < Len(running.of[w].calls)
    /\ db.stats["bot_starts"] = MaxWorkers

----------------------------------------------------------------------------
(* C19 *)

\* /start, or "main menu" or the selection of a course of the registry by a
\* Browsing sender
Navigation ==
    \/ IsCommand(last.upd, "start")
    \/ /\ last.state = SELECTING_ACTION
       /\ last.upd.type = "callback"
       /\ JoinParts(last.upd.data) \in {"main_menu"} \cup CourseKeys

\* C19: when the store is unavailable (no pool configured, or the pool's
\* track_user / increment_stat failing) while the transport works, /start,
\* "main menu" and a course selection still render their menu, raise nothing
\* and leave the sender Browsing.
C19_NavigationSurvivesStore ==
    (/\ Handled
     /\ Navigation
     /\ last.env.fail = {}
     /\ ~db.pool \/ ~last.env.dbOk)
    => /\ last.err = ""
       /\ SentOf("welcome") # <<>> \/ SentOf("course_menu") # <<>>
       /\ conv[Sender] = SELECTING_ACTION

----------------------------------------------------------------------------
(* C20 *)

\* the messages the handling sent to the sender of the update
ToSender == SelectSeq(last.calls, LAMBDA c : c.op \notin DbOps /\ c.chat = Sender)

\* C20: when the send to the admin fails while a customer's text
\* (AwaitingAdminMessage) or screenshot (AwaitingPaymentScreenshot) is
\* relayed, no exception leaves the handler, the sender is sent a failure
\* notice, and nothing is relayed by a second attempt.
C20_RelayFailureCaught ==
    (/\ Handled
     /\ RelayInput
     /\ Sender # ADMIN_ID
     /\ ADMIN_ID \in last.env.fail
     /\ Sender \notin last.env.fail
     /\ last.env.dbOk)
    => /\ last.err = ""
       /\ ToSender # <<>>
       /\ Relayed = <<>>

----------------------------------------------------------------------------
(* C21 *)

\* the session of user u: phase, selected course, selected subject, return
\* target
Session(u) == <<conv[u], user_data[u]>>

----------------------------------------------------------------------------
(* C22 *)

\* an exception left the handler of the handled update
Raised == Handled /\ last.err # ""

\* C22: whenever an exception leaves a handler, error_handler sends the admin
\* exactly one "Bot Error" message that contains the description of the
\* exception, or none if the send to the admin fails, and nothing else; the
\* failure of that send is swallowed: the sender's phase is the one before
\* the update, and the application's next step is to take the next update
\* with every session and the store as they were.
C22_ErrorsNotified ==
    /\ [](Raised =>
            /\ Len(SentOf("bot_error")) = (IF ADMIN_ID \in last.env.fail THEN 0 ELSE 1)
            /\ \A i \in 1..Len(SentOf("bot_error")) :
                    /\ SentOf("bot_error")[i].chat = ADMIN_ID
                    /\ Contains(SentOf("bot_error")[i].text, <<last.err>>)
            /\ conv[Sender] = last.state
            /\ ENABLED Poll)
    /\ [][Raised => /\ last' = Idle
                    /\ conv' = conv /\ user_data' = user_data /\ db' = db]_vars

\* the send to a customer failed in a handler that does not catch it, and the
\* admin was notified
C22_Witness ==
    /\ Raised
    /\ Sender # ADMIN_ID
    /\ last.err = "TelegramError"
    /\ SentOf("bot_error") # <<>>

----------------------------------------------------------------------------
(* C23 *)

\* nothing is selected in the session d
Unselected(d) ==
    d.selected_course = UNSET /\ d.selected_subject = UNSET /\ d.back_to_course_key = UNSET

\* the session d holds a subject of a course of the registry and that
\* course's key as the return target
Consistent(d) ==
    /\ d.selected_course \in CourseKeys
    /\ d.selected_subject \in SubjectKeys(d.selected_course)
    /\ d.back_to_course_key = d.selected_course

\* C23: in every reachable state and for every user, selected_course,
\* selected_subject and back_to_course_key are all unset, or all set with
\* selected_subject a subject of selected_course and back_to_course_key the
\* registry key of selected_course.
C23_SessionConsistent ==
    \A u \in Users : Unselected(user_data[u]) \/ Consistent(user_data[u])

\* a user who had a subject of one course selected has selected a subject of
\* another course
C23_Witness ==
    /\ Handled
    /\ last.handler = "subject_menu"
    /\ last.ud.selected_course # UNSET
    /\ user_data[Sender].selected_course # last.ud.selected_course

----------------------------------------------------------------------------
(* C24 *)

\* the payment instructions among the calls of the handling name course ck
\* with its price
PaymentNames(ck) ==
    \E i \in 1..Len(last.calls) :
        /\ last.calls[i].kind = "payment"
        /\ last.calls[i].chat = Sender
        /\ Contains(last.calls[i].text,
                    <<"Purchase ">> \o Render(html_escape(<<COURSES[ck].name>>)))
        /\ Contains(last.calls[i].text, <<"Price: ">> \o Str(COURSES[ck].price))

\* C24: whenever payment instructions are rendered for a press of "Purchase
\* Full Course" on a post-demo message on the sender's screen, they name and
\* price the course that message names, whatever the sender did before.
C24_UpsellCoursePurchased ==
    (/\ Handled
     /\ last.handler = "handle_buy_or_admin"
     /\ last.upd.text \in screen[Sender]
     /\ SentOf("payment") # <<>>)
    => \E ck \in CourseKeys :
            /\ last.upd.text = upsell_text(COURSES[ck])
            /\ PaymentNames(ck)

----------------------------------------------------------------------------
(* C25 *)

\* among the calls of the handling that succeeded, every message of kind
\* confirmation to chat c comes after a message of kind sent to chat d
Follows(confirmation, c, sent, d) ==
    \A i \in 1..Len(last.calls) :
        (last.calls[i].kind = confirmation /\ last.calls[i].chat = c)
        => \E j \in 1..(i - 1) : last.calls[j].kind = sent /\ last.calls[j].chat = d

\* C25: whatever fails, the sender is sent "Message sent to admin" only after
\* the relay of the text reached the admin, "Screenshot received" only after
\* the relay of the photo reached the admin, and the admin is sent "Reply
\* sent successfully" only after the "Admin replied" message reached the user
\* whose identifier reply_to_user read from the replied-to message.
C25_ConfirmationFollowsSuccess ==
    Handled =>
        /\ Follows("relay_ok", Sender, "new_message", ADMIN_ID)
        /\ Follows("screenshot_ok", Sender, "payment_screenshot", ADMIN_ID)
        /\ \A i \in 1..Len(last.calls) :
              last.calls[i].kind = "reply_ok"
              => /\ last.calls[i].chat = ADMIN_ID
                 /\ parse_user_id(orig_text(last.upd.reply_to)).ok
                 /\ Follows("reply_ok", ADMIN_ID, "admin_replied",
                            parse_user_id(orig_text(last.upd.reply_to)).val)
        /\ \A k \in {"relay_ok", "screenshot_ok", "reply_ok"} : Len(SentOf(k)) <= 1

\* a customer's text was relayed and confirmed while a later call of the
\* handling failed
C25_Witness ==
    /\ Handled
    /\ Sender # ADMIN_ID
    /\ SentOf("relay_ok") # <<>>
    /\ last.err # ""

----------------------------------------------------------------------------
(* C26 *)

\* the update is a text of the admin in reply to a User->Admin message
RepliesToRelay ==
    /\ AdminReply
    /\ last.upd.type = "text"
    /\ last.upd.reply_to \in RelayMessages

\* exactly one "Admin replied" message was sent, to a user whose token the
\* replied-to message carries
RepliedOnce ==
    /\ Len(SentOf("admin_replied")) = 1
    /\ Contains(orig_text(last.upd.reply_to), Token(SentOf("admin_replied")[1].chat))

\* C26: in every conversation phase of the admin (none, Browsing,
\* AwaitingAdminMessage, AwaitingPaymentScreenshot), a text reply of the
\* admin to a relay message sends exactly one "Admin replied" message to a
\* user whose token the relay message carries (every call succeeding).
C26_AdminReplyInEveryPhase ==
    (RepliesToRelay /\ NoFailure) => RepliedOnce

----------------------------------------------------------------------------
(* C27 *)

\* the step handles a /start command or a "main menu" selection with a
\* store that answers
StartCounted ==
    /\ last = Idle
    /\ last'.handler = "start"
    /\ db.pool
    /\ last'.env.dbOk

\* C27: a step that handles a /start command or a "main menu" selection
\* adds exactly one to bot_starts (the store being configured and answering),
\* and every other step, the handling of a /cancel or of a completed relay
\* among them, leaves bot_starts as it is.
C27_StartsCounted ==
    [][Count(db'.stats, "bot_starts")
         = Count(db.stats, "bot_starts") + (IF StartCounted THEN 1 ELSE 0)]_vars

----------------------------------------------------------------------------
(* C28 *)

\* the selection a subject callback with data d stores
SelectionOf(d) ==
    [selected_course |-> Key(d[2], d[3]), selected_subject |-> Key(d[4], d[5]),
     back_to_course_key |-> Key(d[2], d[3])]

\* C28: the selected course, selected subject and return target of a user
\* change only in a step that handles a subject selection of that user for a
\* subject of the registry, and become that selection; the steps of /start,
\* /cancel, "main menu", a course selection, a demo request, buy, talk to
\* admin, share screenshot and the relays leave them as they are, so that a
\* relayed text names the course selected before as its context.
C28_SelectionFrame ==
    /\ [][\A u \in Users :
            user_data'[u] # user_data[u]
            => /\ last = Idle
               /\ last'.upd.user = u
               /\ last'.handler = "subject_menu"
               /\ ~UnknownIdentifier(last'.upd.data)
               /\ user_data'[u] = SelectionOf(last'.upd.data)]_vars
    /\ []((Handled /\ last.handler = "forward_to_admin" /\ SentOf("new_message") # <<>>
           /\ last.ud.selected_course # UNSET)
          => Contains(SentOf("new_message")[1].text,
                      <<"Context: ">>
                      \o Render(html_escape(<<COURSES[last.ud.selected_course].name>>))))

\* a customer with a selection completed a relay of a text, which ended in
\* the welcome menu, and the selection is the one before
C28_Witness ==
    /\ Handled
    /\ last.handler = "forward_to_admin"
    /\ SentOf("welcome") # <<>>
    /\ last.ud.selected_course # UNSET
    /\ user_data[Sender] = last.ud

----------------------------------------------------------------------------
(* C29 *)

\* the counters the application keeps
RegistryCounters == {"bot_starts"} \cup {"view_" \o ck : ck \in CourseKeys}

\* C29: in every reachable state the names of the counters in the stats
\* table are among bot_starts and view_<c> for the courses c of the
\* registry: no update, a callback "c_..." that names no course of the
\* registry included, creates or increments another counter.
C29_CountersOfRegistry == DOMAIN db.stats \subseteq RegistryCounters

\* a course callback that names no course of the registry was handled by
\* course_menu with the store configured and answering, after a start had
\* been counted
C29_Witness ==
    /\ Handled
    /\ last.handler = "course_menu"
    /\ JoinParts(last.upd.data) \notin CourseKeys
    /\ db.pool
    /\ last.env.dbOk
    /\ last.err = ""
    /\ "bot_starts" \in DOMAIN db.stats

====
